---- MODULE Spec2Model ----
(***************************************************************************)
(* Model of the SageMaker-docs ingestion pipeline of aws-rag-bot:          *)
(*   - startup_ingest_sagemaker_docs   (app/services/dependencies.py)      *)
(*   - S3Service.list_files / upload_local_file (app/services/s3_service)  *)
(*   - OpenSearchService existence checks and writes                       *)
(*   - SageMakerDocsSyncService.startup_check_and_sync_docs                *)
(*   - OpenSearchService.hybrid_search (app/services/opensearch_service)   *)
(*   - _properties_cover_expected, the mapping-coverage check              *)
(* Every remote call is a suspension point: it is issued by one action and *)
(* completes (returns or raises) in a later one.                           *)
(***************************************************************************)
EXTENDS Integers, FiniteSets, Sequences, TLC

\* ---------------------------------------------------------------- bounds
NumDocs == 2
MaxChunks == 2
\* index and embedding calls that may fail in one run
MaxIndexFailures == 2

\* ------------------------------------------------------ program constants
\* S3Service.list_files(max_keys=1000): one list_objects_v2 page, no paging.
MaxKeysDefault == 1000
\* SageMakerDocsSyncConfig.concurrency: int = 10
SyncConcurrencyDefault == 10

\* ------------------------------------------------------------ local corpus
\* list_markdown_files() returns the files sorted by path; a document is
\* named by its rank in that order.
Docs == 1..NumDocs

\* A content is named by the number of phrases the splitter cuts it into
\* (0 is the empty text).
Contents == 0..MaxChunks

\* A string is the sequence of its characters.  rel_key =
\* path.relative_to(docs_dir).as_posix(): the files of the corpus in path
\* order.
FileNames == <<"a", "b", "c", "d">>
rel_key(d) == <<FileNames[d]>>

\* Spellings of the configured destination prefix (SAGEMAKER_DOCS_S3_PREFIX,
\* SageMakerDocsSyncConfig.s3_prefix).
Prefixes == { <<>>, <<"p">>, <<"p", "/">> }

\* str.strip()
RECURSIVE strip(_)
strip(s) ==
    IF s = <<>> THEN s
    ELSE IF s[1] = " " THEN strip(Tail(s))
    ELSE IF s[Len(s)] = " " THEN strip(SubSeq(s, 1, Len(s) - 1))
    ELSE s

normalize_prefix_verbatim(prefix) == prefix

\* if prefix and not prefix.endswith("/"): prefix += "/"
normalize_prefix(prefix) ==
    IF prefix # <<>> /\ prefix[Len(prefix)] # "/" THEN prefix \o <<"/">> ELSE prefix

\* key = f"{prefix}{rel_key}" if prefix else rel_key
destination_key(prefix, d) == IF prefix # <<>> THEN prefix \o rel_key(d) ELSE rel_key(d)

\* str.startswith
StartsWith(k, prefix) == Len(k) >= Len(prefix) /\ SubSeq(k, 1, Len(prefix)) = prefix

\* Rank of a key among the keys of the corpus files in key order.
NameRank(k) == CHOOSE n \in 1..Len(FileNames) : FileNames[n] = k[Len(k)]

\* doc_id = sha256(rel_path).hexdigest()
doc_id_from_rel_path(d) == <<"sha256", d>>

ChunkIdCountedFromOne(d, i) == <<doc_id_from_rel_path(d), i + 1>>

ChunkIdWithoutIndex(d, i) == <<doc_id_from_rel_path(d), 0>>

\* chunk_id = f"{doc_id}_{i}"
ChunkId(d, i) == <<doc_id_from_rel_path(d), i>>

\* DocumentService.split_text_into_phrases: [] for an empty text, otherwise
\* the splitter's ordered phrase list.
split_text_into_phrases(text) == IF text = 0 THEN <<>> ELSE [n \in 1..text |-> n]

\* ---------------------------------------------------------- configuration
\* <<SAGEMAKER_DOCS_S3_CONCURRENCY, SAGEMAKER_DOCS_OPENSEARCH_CONCURRENCY,
\*   SAGEMAKER_DOCS_EMBEDDING_CONCURRENCY>> as read by int(os.getenv(...)).
Limits == { <<1, 4, 1>>, <<2, 2, 2>>, <<0, -1, 0>> }

\* The environments of an ingestion run: the prefix only names the keys, so
\* each triple of limits comes with one spelling of the prefix.
Environments ==
    { [limits |-> <<1, 4, 1>>, prefix |-> <<"p", "/">>],
      [limits |-> <<2, 2, 2>>, prefix |-> <<"p">>],
      [limits |-> <<0, -1, 0>>, prefix |-> <<>>] }

\* Values of SageMakerDocsSyncConfig.concurrency
SyncLimits == { -1, 0, 1, 2, SyncConcurrencyDefault }

\* Numbers of objects under the prefix that are not local documents and sort
\* before every local document's key.
ForeignCounts == { 0, MaxKeysDefault - 1 }

Max(a, b) == IF a >= b THEN a ELSE b

RECURSIVE SumOver(_, _)
SumOver(S, f) ==
    IF S = {} THEN 0
    ELSE LET x == CHOOSE y \in S : TRUE IN f[x] + SumOver(S \ {x}, f)

\* ------------------------------------------------------------------ state
VARIABLES
    docsDirOk,      \* docs_dir.exists() and docs_dir.is_dir()
    content,        \* content[d]: local text of document d
    conf,           \* the three configured concurrency values
    s3_prefix,      \* the configured destination prefix
    s3Objects,      \* keys of the corpus files' objects in the bucket
    s3Foreign,      \* other objects under the prefix, sorting first
    lexIdx,         \* doc_ids present in the lexical index
    vecIdx,         \* chunk ids present in the vector index
    pc,             \* position of startup_ingest_sagemaker_docs
    existing_keys,  \* key snapshot taken by list_files
    up,             \* up[d]: state of the upload task of document d
    upSem, osSem, embedSem, docSem,   \* asyncio.Semaphore values
    dpc,            \* dpc[d]: position of _guarded/_index_one_doc for d
    di,             \* di[d]: loop index i of the chunk loop
    indexed_text,   \* local of _index_one_doc
    indexed_chunks, \* local of _index_one_doc
    result,         \* the returned dict
    logged,         \* logger.error records written by the run
    issued,         \* issued[c]: times remote call c was issued in this run
    okCalls,        \* remote calls that returned
    failedCalls,    \* remote calls that raised
    vecAtCheck,     \* chunk count seen by each document's embeddings check
    start,          \* the remote stores as they were when the run began
    \* SageMakerDocsSyncService.startup_check_and_sync_docs
    syncConc,       \* SageMakerDocsSyncConfig.concurrency
    spc,            \* position of startup_check_and_sync_docs
    sup,            \* sup[d]: state of the task _upload_one(path, key)
    semaphore,      \* value of its asyncio.Semaphore
    succeeded,      \* local counter
    failed,         \* local counter
    syncLog,        \* keys of its "upload failed" error records
    \* OpenSearchService.hybrid_search
    hpc,            \* position of hybrid_search
    args,           \* the arguments hybrid_search was called with
    k_text,         \* local k_text
    k_vector,       \* local k_vector
    lexRanked,      \* hits the lexical engine ranks for the query, best first
    vecRanked,      \* hits the vector engine ranks for the query, best first
    responses,      \* responses[side]: the search task of each index
    arrival,        \* the sides in the order their search tasks ended
    embedCalls,     \* text_to_embedding calls made
    requests,       \* search requests sent
    phrases,        \* returned list of phrases
    documents,      \* returned list of document paths
    errors,         \* exceptions hybrid_search has raised to its caller
    \* _properties_cover_expected
    mpc,            \* position of the mapping-coverage check
    existing_props, \* properties of the index's mapping
    expected_props, \* properties the caller expects
    covers,         \* the returned bool
    \* _OpenSearchClient and OpenSearchSetupService._setup_index
    cpc,            \* position of the client call being made
    call,           \* the operation called and its arguments
    engine,         \* indexes the search engine holds
    sent,           \* requests sent by the call, in order
    given,          \* what the call gave its caller: a value or an exception
    cause,          \* why the call raised, if it did
    answers,        \* the answers the call's requests got, in order
    \* DocumentService.text_to_embedding / DocumentTextService.text_to_embedding
    epc,            \* position of the text_to_embedding call
    ecall,          \* the service, the text and BEDROCK_EMBEDDING_DIM
    egiven,         \* what the call gave: a vector or an exception
    \* doc_id and chunk ids computed by _index_one_doc, run after run
    runs,           \* one record for each computation made so far
    \* startup_ingest_sagemaker_docs called again, start after start
    stuck,          \* documents whose chunk batch broke off in an earlier run
    \* a second startup_ingest_sagemaker_docs running at the same time
    pc2,            \* its position
    existing_keys2, \* its key snapshot
    up2,            \* up2[d]: its upload of document d
    dpc2,           \* dpc2[d]: the next index call of its _index_one_doc for d
    di2,            \* di2[d]: its loop index i of the chunk loop
    \* OpenSearchSetupService._setup_collection
    kpc,            \* position of _setup_collection
    collection_name, \* its argument
    now,            \* time.monotonic(), in seconds
    deadline,       \* local deadline
    found,          \* what _collection_exists gave
    created,        \* create_collection calls made
    seen,           \* what the latest status poll gave
    kgiven          \* how _setup_collection ended

remote == <<s3Objects, s3Foreign, lexIdx, vecIdx>>
cfg == <<docsDirOk, content, conf, s3_prefix>>
sems == <<upSem, osSem, embedSem, docSem>>
locals == <<di, indexed_text, indexed_chunks>>
ghost == <<issued, okCalls, failedCalls, vecAtCheck, start>>
ingest == <<sems, locals, pc, existing_keys, up, dpc, result, logged>>
sync == <<syncConc, spc, sup, semaphore, succeeded, failed, syncLog>>
search == <<hpc, args, k_text, k_vector, lexRanked, vecRanked, responses, arrival,
            embedCalls, requests, phrases, documents, errors>>
mapping == <<mpc, existing_props, expected_props, covers>>
client == <<cpc, call, engine, sent, given, cause, answers>>
embedding == <<epc, ecall, egiven>>
ids == <<runs>>
again == <<stuck>>
other == <<pc2, existing_keys2, up2, dpc2, di2>>
collection == <<kpc, collection_name, now, deadline, found, created, seen, kgiven>>
rest == <<again, other, collection>>
units == <<client, embedding, ids, rest>>
vars == <<remote, cfg, ghost, ingest, sync, search, mapping, units>>

\* prefix as each function reads it (dependencies.py:99-101 strips the
\* environment value, sagemaker_docs_service.py:60-62 takes the config value)
Prefix == normalize_prefix(IF pc = "idle" THEN s3_prefix ELSE strip(s3_prefix))

\* The destination key of document d.
Key(d) == destination_key(Prefix, d)

Call(op, d, i) == <<op, d, i>>
ListCall == Call("list", 0, 0)
Calls ==
    {ListCall}
    \cup { Call(op, d, 0) : op \in {"put", "lex_exists", "lex_write", "emb_exists"},
                             d \in Docs }
    \cup { Call(op, d, i) : op \in {"embed", "chunk_write"}, d \in Docs,
                             i \in 0..(MaxChunks - 1) }

ZeroResult ==
    [local_docs |-> 0, s3_uploaded |-> 0, search_indexed |-> 0,
     vector_chunks_indexed |-> 0]

\* -------------------------------------------------------- remote services
\* list_objects_v2(Bucket, MaxKeys, Prefix): the first max_keys keys under the
\* prefix in key order (every key when the prefix is empty); list_files reads
\* this single page.
list_files(objs, foreign, prefix, max_keys) ==
    LET under == { k \in objs : StartsWith(k, prefix) }
    IN { e \in under :
           foreign + Cardinality({ x \in under : NameRank(x) <= NameRank(e) }) <= max_keys }

\* HEAD /{index}/_doc/{doc_id}: 200 -> True, 404 -> False
text_document_exists(idx, d) == doc_id_from_rel_path(d) \in idx

\* term query on doc_id with size 0: the hit total
count_by_term(idx, d) ==
    Cardinality({ c \in idx : c[1] = doc_id_from_rel_path(d) })

embeddings_exist_more_than_one(idx, d) == count_by_term(idx, d) > 1

embeddings_exist_for_every_phrase(idx, d) ==
    count_by_term(idx, d) >= Len(split_text_into_phrases(content[d]))

embeddings_exist_for_doc(idx, d) == count_by_term(idx, d) > 0

\* ------------------------------------------------------------- semaphores
SemaphoreValueAsConfigured(n) == n

\* asyncio.Semaphore(max(1, n))
SemaphoreValue(n) == Max(1, n)

doc_conc_not_halved(opensearch_conc) == Max(1, opensearch_conc)

\* doc_conc = max(1, opensearch_conc // 2)
doc_conc(opensearch_conc) == Max(1, opensearch_conc \div 2)

AcquireOffByOne(sem) == sem >= 0

\* Semaphore.acquire() proceeds only while the value is positive.
CanAcquire(sem) == sem > 0

\* ------------------------------------------------------------------- Init
\* What earlier runs (or nobody) left in the remote stores for one document:
\*   absent   - nothing;
\*   complete - object, lexical entry and every chunk of the current content;
\*   uploaded - the object only (its indexing failed at the first call);
\*   partial  - the object under the bare relative path only (a run with
\*              an empty prefix), lexical entry written, chunk batch failed
\*              after the first chunk.
Profiles == {"absent", "complete", "uploaded", "partial"}

InS3(p) == p \in {"complete", "uploaded"}
InLex(p) == p \in {"complete", "partial"}
ChunksLeft(p, text) ==
    CASE p = "complete" -> Len(split_text_into_phrases(text))
      [] p = "partial" -> 1
      [] OTHER -> 0

\* The corpus whose first document has text c, the next one the next text,
\* and so on round the texts.
Corpus(c) == [d \in Docs |-> (c + d - 1) % (MaxChunks + 1)]

\* The local corpus and the remote stores at the start of a run.
RemoteInit ==
    \E c \in Contents, prof \in [Docs -> Profiles], f \in ForeignCounts :
       /\ content = Corpus(c)
       /\ docsDirOk =>
            /\ s3Objects = { Key(d) : d \in { e \in Docs : InS3(prof[e]) } }
                           \cup { rel_key(d) : d \in { e \in Docs : prof[e] = "partial" } }
            /\ s3Foreign = f
            /\ lexIdx = { doc_id_from_rel_path(d) : d \in { e \in Docs : InLex(prof[e]) } }
            /\ vecIdx = UNION { { ChunkId(d, i) :
                                    i \in 0..(ChunksLeft(prof[d], Corpus(c)[d]) - 1) } :
                                d \in Docs }
       /\ ~docsDirOk =>
            /\ s3Objects = {} /\ s3Foreign = 0 /\ lexIdx = {} /\ vecIdx = {}

\* The corpus c with every document left in the same way p by what ran before.
UniformRemoteInit(p, c) ==
    /\ content = Corpus(c)
    /\ s3Objects = { Key(d) : d \in { e \in Docs : InS3(p) } }
                   \cup { rel_key(d) : d \in { e \in Docs : p = "partial" } }
    /\ s3Foreign = 0
    /\ lexIdx = { doc_id_from_rel_path(d) : d \in { e \in Docs : InLex(p) } }
    /\ vecIdx = UNION { { ChunkId(d, i) : i \in 0..(ChunksLeft(p, Corpus(c)[d]) - 1) } :
                        d \in Docs }

GhostInit ==
    /\ issued = [c \in Calls |-> 0]
    /\ okCalls = {}
    /\ failedCalls = {}
    /\ vecAtCheck = [d \in Docs |-> -1]
    /\ start = [s3 |-> s3Objects, foreign |-> s3Foreign, lex |-> lexIdx, vec |-> vecIdx]

IngestInit(p) ==
    /\ pc = p
    /\ existing_keys = {}
    /\ up = [d \in Docs |-> "none"]
    /\ upSem = 0 /\ osSem = 0 /\ embedSem = 0 /\ docSem = 0
    /\ dpc = [d \in Docs |-> "idle"]
    /\ di = [d \in Docs |-> 0]
    /\ indexed_text = [d \in Docs |-> 0]
    /\ indexed_chunks = [d \in Docs |-> 0]
    /\ result = ZeroResult
    /\ logged = {}

SyncInit(p) ==
    /\ spc = p
    /\ sup = [d \in Docs |-> "none"]
    /\ semaphore = 0
    /\ succeeded = 0
    /\ failed = 0
    /\ syncLog = {}

\* ---------------------------------------------------------- hybrid_search
MaxHits == 2

\* The search and the vector index.
Sides == {"lexical", "vector"}

\* Python's None where a string is expected.
None == <<"None">>

\* `value or ""`
OrEmpty(value) == IF value = None THEN <<>> ELSE value

\* The calls of hybrid_search: query, k_text, k_vector.
SearchInputs ==
    { [query |-> None, k_text |-> 5, k_vector |-> 5],
      [query |-> <<>>, k_text |-> 5, k_vector |-> 5],
      [query |-> <<" ", " ">>, k_text |-> 5, k_vector |-> 5],
      [query |-> <<"q">>, k_text |-> 999, k_vector |-> 0],
      [query |-> <<" ", "q", " ">>, k_text |-> 5, k_vector |-> 50],
      [query |-> <<"q">>, k_text |-> -3, k_vector |-> 51] }

\* Hits of the vector index: _source.text and _source.path.
VectorHits ==
    { [text |-> <<"A">>, path |-> <<"x">>],
      [text |-> <<" ", "A", " ">>, path |-> <<" ", "x">>],
      [text |-> <<>>, path |-> <<"y">>],
      [text |-> <<"B">>, path |-> <<" ">>] }

\* Hits of the search index: _source.path, _source.title and the
\* highlight.content fragments.
LexicalHits ==
    { [path |-> <<"y">>, title |-> <<"T">>, highlight |-> << <<"B">> >>],
      [path |-> <<"x">>, title |-> <<"T">>, highlight |-> << <<"A">> >>],
      [path |-> <<"y">>, title |-> <<"T">>,
       highlight |-> << <<"<em>", "B", "</em>">>, <<"<em>", " ", "</em>">> >>],
      [path |-> <<"z">>, title |-> <<"T">>, highlight |-> <<>>],
      [path |-> <<"x">>, title |-> None, highlight |-> <<>>] }

\* The ranked lists of at most n hits drawn from a set.
RankedLists(S, n) == UNION { [1..m -> S] : m \in 0..n }

SearchInit(p) ==
    /\ hpc = p
    /\ responses = [side \in Sides |-> [state |-> "none", hits |-> <<>>]]
    /\ arrival = <<>>
    /\ embedCalls = 0
    /\ requests = {}
    /\ phrases = <<>>
    /\ documents = <<>>
    /\ errors = 0

\* No search is made.
SearchIdle ==
    /\ args = [query |-> <<>>, k_text |-> 0, k_vector |-> 0]
    /\ k_text = 0 /\ k_vector = 0
    /\ lexRanked = <<>> /\ vecRanked = <<>>
    /\ SearchInit("idle")

\* --------------------------------------------- _properties_cover_expected
\* dim_raw = os.getenv("BEDROCK_EMBEDDING_DIM", "1024")
DefaultDimension == 1024

\* A raw "dimension" value of a field: missing, an int, a string of digits,
\* or something int() rejects.
NoDimension == [kind |-> "none", value |-> 0]
IntDimension(n) == [kind |-> "int", value |-> n]
StrDimension(n) == [kind |-> "str", value |-> n]
JunkDimension == [kind |-> "junk", value |-> 0]

\* A field of a mapping: {"type": t} with or without "dimension"; a missing
\* "type" is the empty string; NotADict is a value that is not a dict.
FieldSpec(type, dimension) == [dict |-> TRUE, type |-> type, dimension |-> dimension]
NotADict == [dict |-> FALSE, type |-> "", dimension |-> NoDimension]

\* What an index may hold for each field (the field may also be missing).
ExistingSpecs ==
    [doc_id |-> { FieldSpec("keyword", NoDimension), FieldSpec("text", NoDimension) },
     content |-> { FieldSpec("text", NoDimension), FieldSpec("keyword", NoDimension),
                   FieldSpec("", NoDimension), NotADict },
     embedding |-> { FieldSpec("knn_vector", IntDimension(DefaultDimension)),
                     FieldSpec("knn_vector", IntDimension(DefaultDimension \div 2)),
                     FieldSpec("knn_vector", StrDimension(DefaultDimension)),
                     FieldSpec("knn_vector", JunkDimension),
                     FieldSpec("knn_vector", NoDimension),
                     FieldSpec("text", NoDimension), NotADict }]

\* What _search_mapping and _vector_mapping(dimension) expect of a field.
ExpectedSpecs ==
    [doc_id |-> { FieldSpec("keyword", NoDimension) },
     content |-> { FieldSpec("text", NoDimension) },
     embedding |-> { FieldSpec("knn_vector", IntDimension(DefaultDimension)),
                     FieldSpec("knn_vector", IntDimension(DefaultDimension \div 2)) }]

\* The mappings over some of the fields, each field with one of its specs.
Mappings(specs) ==
    UNION { { m \in [fields -> UNION { specs[f] : f \in fields }] :
                \A f \in fields : m[f] \in specs[f] } :
            fields \in SUBSET DOMAIN specs }

\* No coverage check is made.
MappingIdle ==
    /\ mpc = "idle"
    /\ existing_props = <<>>
    /\ expected_props = <<>>
    /\ covers = FALSE

\* ================================================= _OpenSearchClient calls
\* One call of a data-plane method of _OpenSearchClient, or of
\* OpenSearchSetupService._setup_index, against an engine that answers each
\* signed request with a status and a payload, or not at all.

\* ---------------------------------------------------------------- payloads
\* A JSON value as far as the client looks at it: its kind and, for numbers,
\* the integer int() makes of it.
Scalar(kind, num) == [kind |-> kind, num |-> num]
Absent == Scalar("absent", 0)
JsonNull == Scalar("null", 0)
JsonInt(n) == Scalar("int", n)
JsonBool(b) == Scalar("bool", IF b THEN 1 ELSE 0)
\* a float whose integer part is n
JsonFloat(n) == Scalar("float", n)
\* a string spelling the integer n
JsonNumStr(n) == Scalar("numstr", n)
JsonStr == Scalar("str", 0)
JsonNaN == Scalar("nan", 0)
JsonList == Scalar("list", 0)
JsonDict == Scalar("dict", 0)

\* A parsed body: the kind of the top-level value and, when it is an object,
\* its "acknowledged" member, the kind of its "hits" member, and
\* hits["total"] and hits["total"]["value"].
JsonDoc(top, acknowledged, hits, total, value) ==
    [top |-> top, acknowledged |-> acknowledged, hits |-> hits, total |-> total,
     value |-> value]
NoJson == JsonDoc("none", Absent, "absent", Absent, Absent)
EmptyDict == JsonDoc("dict", Absent, "absent", Absent, Absent)
Hits(total, value) == JsonDoc("dict", Absent, "dict", total, value)

\* The payload bytes: empty, not UTF-8, UTF-8 that is not JSON, or JSON.
Payload(bytes, json) == [bytes |-> bytes, json |-> json]
EmptyPayload == Payload("empty", NoJson)
UndecodablePayload == Payload("undecodable", NoJson)
TextPayload == Payload("text", NoJson)
JsonPayload(j) == Payload("json", j)

\* Values of hits.total.value in a search response.
TotalValues ==
    { Absent, JsonNull, JsonInt(4), JsonInt(0), JsonInt(-1), JsonBool(TRUE),
      JsonFloat(2), JsonNumStr(7), JsonStr, JsonNaN, JsonList, JsonDict }

\* Bodies of a search response.
SearchDocs ==
    { JsonDoc(top, Absent, "absent", Absent, Absent) :
        top \in {"dict", "list", "int", "str", "null"} }
    \cup { JsonDoc("dict", Absent, hits, Absent, Absent) : hits \in {"list", "null", "str"} }
    \cup { Hits(total, Absent) :
             total \in { Absent, JsonNull, JsonInt(3), JsonInt(0), JsonInt(-2),
                         JsonBool(TRUE), JsonNumStr(5), JsonStr, JsonList } }
    \cup { Hits(JsonDict, value) : value \in TotalValues }

\* Bodies of the answer to an index creation.
AckDocs ==
    { JsonDoc("dict", acknowledged, "absent", Absent, Absent) :
        acknowledged \in { Absent, JsonBool(TRUE), JsonBool(FALSE), JsonNull, JsonStr } }
    \cup { JsonDoc("list", Absent, "absent", Absent, Absent) }

RawPayloads == { EmptyPayload, UndecodablePayload, TextPayload }
SearchPayloads == RawPayloads \cup { JsonPayload(j) : j \in SearchDocs }
AckPayloads == RawPayloads \cup { JsonPayload(j) : j \in AckDocs }
ErrorPayloads == RawPayloads \cup { JsonPayload(EmptyDict) }

\* HTTP statuses an answer may carry.
Statuses == { 200, 201, 204, 400, 404, 500 }
\* statuses that do not say whether the index exists
FaultStatuses == { 201, 204, 400, 500 }

\* ------------------------------------------------------- what a call gives
NoText == <<>>
\* payload.decode("utf-8") if payload else "", "" when decoding raises
details(payload) ==
    IF payload.bytes \in {"empty", "undecodable"} THEN NoText ELSE <<payload>>

\* json.loads(payload.decode("utf-8")) succeeds
Parseable(payload) == payload.bytes = "json"

Return(value, resp) ==
    [kind |-> "return", value |-> value, resp |-> resp, error |-> "",
     status |-> 0, details |-> NoText]
\* An exception of class error whose message names the status and details.
Raise(error, status, text) ==
    [kind |-> "raise", value |-> Absent, resp |-> NoJson, error |-> error,
     status |-> status, details |-> text]
NoOutcome ==
    [kind |-> "none", value |-> Absent, resp |-> NoJson, error |-> "",
     status |-> 0, details |-> NoText]
ReturnBool(b) == Return(JsonBool(b), NoJson)
ReturnNone == Return(JsonNull, NoJson)

\* bool(x)
truthy(x) ==
    CASE x.kind \in {"absent", "null"} -> FALSE
      [] x.kind \in {"int", "bool", "float"} -> x.num # 0
      [] OTHER -> TRUE

\* int(x) does not raise
IntConvertible(x) == x.kind \in {"int", "bool", "float", "numstr"}

\* _validate_index_name: the name is not empty and not blank
validate_index_name(index_name) == index_name # <<>> /\ strip(index_name) # <<>>

\* _signed_request: aiohttp.ClientError and every other exception of the
\* request become OpenSearchServiceError("OpenSearch request failed")
signed_request_failed == Raise("OpenSearchServiceError", 0, NoText)

\* index_exists after the HEAD was answered
index_exists(status) ==
    CASE status = 200 -> ReturnBool(TRUE)
      [] status = 404 -> ReturnBool(FALSE)
      [] OTHER -> Raise("OpenSearchServiceError", status, NoText)

\* document_exists after the HEAD was answered
document_exists_not_found_raises(status) ==
    IF status = 200 THEN ReturnBool(TRUE)
    ELSE Raise("OpenSearchUnexpectedResponseError", status, NoText)
document_exists(status) ==
    CASE status = 200 -> ReturnBool(TRUE)
      [] status = 404 -> ReturnBool(FALSE)
      [] OTHER -> Raise("OpenSearchUnexpectedResponseError", status, NoText)

\* create_index_and_mapping after the PUT was answered
create_index_always_true(status, payload) ==
    IF status \in {200, 201} THEN ReturnBool(TRUE)
    ELSE Raise("OpenSearchServiceError", status, details(payload))
create_index_and_mapping(status, payload) ==
    IF status \in {200, 201}
    THEN IF payload.bytes = "empty" THEN ReturnBool(TRUE)
         ELSE IF ~Parseable(payload) \/ payload.json.top # "dict" THEN ReturnBool(TRUE)
         ELSE IF payload.json.acknowledged.kind = "absent" THEN ReturnBool(TRUE)
         ELSE ReturnBool(truthy(payload.json.acknowledged))
    ELSE Raise("OpenSearchServiceError", status, details(payload))

\* index_document after the PUT was answered
index_document(status, payload) ==
    IF status \in {200, 201} THEN ReturnBool(TRUE)
    ELSE Raise("OpenSearchServiceError", status, details(payload))

\* search after the POST was answered (named search_response: search is the
\* tuple of hybrid_search's variables)
search_response_unchecked(status, payload) ==
    IF Parseable(payload) THEN Return(Scalar("json", 0), payload.json)
    ELSE Return(Scalar("json", 0), EmptyDict)
search_response(status, payload) ==
    IF status # 200
    THEN Raise("OpenSearchUnexpectedResponseError", status, details(payload))
    ELSE IF payload.bytes = "empty" THEN Return(Scalar("json", 0), EmptyDict)
    ELSE IF Parseable(payload) THEN Return(Scalar("json", 0), payload.json)
    ELSE Raise("OpenSearchUnexpectedResponseError", 0, NoText)

\* count_by_term after search returned resp (named count_from_response:
\* count_by_term above is the engine's count)
count_from_response(resp) ==
    IF resp.top # "dict" THEN Raise("AttributeError", 0, NoText)
    ELSE IF resp.hits # "dict" THEN Return(JsonInt(0), NoJson)
    ELSE IF resp.total.kind \in {"int", "bool"} THEN Return(resp.total, NoJson)
    ELSE IF resp.total.kind = "dict"
         THEN IF resp.value.kind \in {"absent", "null"} THEN Return(JsonInt(0), NoJson)
              ELSE IF IntConvertible(resp.value)
                   THEN Return(JsonInt(resp.value.num), NoJson)
                   ELSE Return(JsonInt(0), NoJson)
    ELSE Return(JsonInt(0), NoJson)

\* A call: the method and its arguments.
NoArg == <<>>

ClientCall(op, index_name, document_id, field, body) ==
    [op |-> op, index_name |-> index_name, document_id |-> document_id,
     field |-> field, body |-> body]
NoCall == ClientCall("none", NoArg, NoArg, NoArg, NoArg)

\* No client call is made.
ClientIdle ==
    /\ cpc = "idle"
    /\ call = NoCall
    /\ engine = {}
    /\ sent = <<>>
    /\ given = NoOutcome
    /\ cause = "none"
    /\ answers = <<>>

\* text_to_embedding is not called.
NoEmbeddingCall == [service |-> "none", text |-> <<>>, dim |-> Absent]
NoVector == [kind |-> "none", len |-> 0, error |-> "", message |-> ""]
EmbeddingIdle ==
    /\ epc = "idle"
    /\ ecall = NoEmbeddingCall
    /\ egiven = NoVector

\* No ids are computed.
IdsIdle == runs = <<>>

\* The first run, with no run before it.
AgainIdle == stuck = {}

\* No second run.
OtherInit(p) ==
    /\ pc2 = p
    /\ existing_keys2 = {}
    /\ up2 = [d \in Docs |-> "none"]
    /\ dpc2 = [d \in Docs |-> "idle"]
    /\ di2 = [d \in Docs |-> 0]

\* _setup_collection at position p, nothing done yet.
CollectionInit(p) ==
    /\ kpc = p
    /\ now = 0
    /\ deadline = 0
    /\ found = "none"
    /\ created = 0
    /\ seen = "none"
    /\ kgiven = "none"

CollectionIdle == CollectionInit("idle") /\ collection_name = ""

RestIdle == AgainIdle /\ OtherInit("idle") /\ CollectionIdle

UnitsIdle == ClientIdle /\ EmbeddingIdle /\ IdsIdle /\ RestIdle

\* One run of startup_ingest_sagemaker_docs.
Init ==
    /\ docsDirOk \in BOOLEAN
    /\ \E env \in Environments : conf = env.limits /\ s3_prefix = env.prefix
    /\ IngestInit("start")
    /\ syncConc = SyncConcurrencyDefault
    /\ SyncInit("idle")
    /\ SearchIdle
    /\ MappingIdle
    /\ UnitsIdle
    /\ RemoteInit
    /\ GhostInit

\* ------------------------------------------------ startup_ingest: S3 sync
\* docs_dir missing: the function logs a warning and returns all zeros.
DocsDirMissing ==
    /\ pc = "start"
    /\ ~docsDirOk
    /\ pc' = "returned"
    /\ result' = ZeroResult
    /\ UNCHANGED <<remote, cfg, sems, locals, ghost, existing_keys, up, dpc, logged,
                   sync,
                   search, mapping, units>>

\* planned_uploads: the local files whose key is not in existing_keys
PlannedUploads(keys) == { d \in Docs : Key(d) \notin keys }

\* The semaphores and tasks of the indexing phase (lines 134-137, 188-195).
BeginIndexing ==
    /\ osSem' = SemaphoreValue(conf[2])
    /\ embedSem' = SemaphoreValue(conf[3])
    /\ docSem' = doc_conc(conf[2])
    /\ dpc' = [d \in Docs |-> "wait_doc_sem"]

\* existing_items = await s3.list_files(prefix=prefix) returns; the upload
\* plan is computed and the upload tasks are created.
ListFilesReturns ==
    /\ pc = "start"
    /\ docsDirOk
    /\ LET keys == list_files(s3Objects, s3Foreign, Prefix, MaxKeysDefault)
           planned == PlannedUploads(keys)
       IN /\ existing_keys' = keys
          /\ issued' = [issued EXCEPT ![ListCall] = @ + 1]
          /\ okCalls' = okCalls \cup {ListCall}
          /\ IF planned # {}
             THEN /\ pc' = "uploading"
                  /\ up' = [d \in Docs |-> IF d \in planned THEN "waiting" ELSE "none"]
                  /\ upSem' = SemaphoreValue(conf[1])
                  /\ UNCHANGED <<osSem, embedSem, docSem, dpc>>
             ELSE /\ pc' = "indexing"
                  /\ BeginIndexing
                  /\ UNCHANGED <<up, upSem>>
    /\ UNCHANGED <<remote, cfg, locals, failedCalls, vecAtCheck, result, logged, start,
                   sync,
                   search, mapping, units>>

\* list_files raises S3ServiceError; line 103 is not inside any try.
ListFilesRaises ==
    /\ pc = "start"
    /\ docsDirOk
    /\ pc' = "raised"
    /\ issued' = [issued EXCEPT ![ListCall] = @ + 1]
    /\ failedCalls' = failedCalls \cup {ListCall}
    /\ UNCHANGED <<remote, cfg, sems, locals, okCalls, vecAtCheck, existing_keys, up,
                   dpc, result, logged, start, sync,
                   search, mapping, units>>

\* _upload_one: async with sem -> put_object is issued (tasks in list order)
UploadStart(d) ==
    /\ pc = "uploading"
    /\ up[d] = "waiting"
    /\ \A e \in Docs : e < d => up[e] # "waiting"
    /\ CanAcquire(upSem)
    /\ upSem' = upSem - 1
    /\ up' = [up EXCEPT ![d] = "inflight"]
    /\ issued' = [issued EXCEPT ![Call("put", d, 0)] = @ + 1]
    /\ UNCHANGED <<remote, cfg, osSem, embedSem, docSem, locals, okCalls, failedCalls,
                   vecAtCheck, pc, existing_keys, dpc, result, logged, start, sync,
                   search, mapping, units>>

\* upload_local_file returns: the object is stored, the task returns True
UploadReturns(d) ==
    /\ pc = "uploading"
    /\ up[d] = "inflight"
    /\ upSem' = upSem + 1
    /\ up' = [up EXCEPT ![d] = "ok"]
    /\ s3Objects' = s3Objects \cup {Key(d)}
    /\ okCalls' = okCalls \cup {Call("put", d, 0)}
    /\ UNCHANGED <<s3Foreign, lexIdx, vecIdx, cfg, osSem, embedSem, docSem, locals,
                   issued, failedCalls, vecAtCheck, pc, existing_keys, dpc, result,
                   logged, start, sync,
                   search, mapping, units>>

\* upload_local_file raises S3ServiceError: the task ends with the exception
UploadRaises(d) ==
    /\ pc = "uploading"
    /\ up[d] = "inflight"
    /\ upSem' = upSem + 1
    /\ up' = [up EXCEPT ![d] = "failed"]
    /\ failedCalls' = failedCalls \cup {Call("put", d, 0)}
    /\ UNCHANGED <<remote, cfg, osSem, embedSem, docSem, locals, issued, okCalls,
                   vecAtCheck, pc, existing_keys, dpc, result, logged, start, sync,
                   search, mapping, units>>

\* asyncio.gather(..., return_exceptions=True) hands its results over once
\* every awaitable has finished.
GatherNotAwaited(outcome) == TRUE

GatherFirstException(outcome) ==
    \/ \E t \in DOMAIN outcome : outcome[t] = "failed"
    \/ \A t \in DOMAIN outcome : outcome[t] = "ok"

GatherDone(outcome) == \A t \in DOMAIN outcome : outcome[t] \in {"ok", "failed"}

\* The upload tasks handed to gather, each "ok", "failed" or not yet finished.
UploadOutcome == [d \in { e \in Docs : up[e] # "none" } |-> up[d]]

\* for r in results: r is True -> s3_uploaded += 1
CountUploaded(states) == Cardinality({ d \in Docs : states[d] = "ok" })

\* lines 123-128, then the indexing phase is set up
UploadsGathered ==
    /\ pc = "uploading"
    /\ GatherDone(UploadOutcome)
    /\ result' = [result EXCEPT !.s3_uploaded = CountUploaded(up)]
    /\ logged' = logged \cup { <<"S3 upload failed", Key(d)>> : d \in { e \in Docs : up[e] = "failed" } }
    /\ pc' = "indexing"
    /\ BeginIndexing
    /\ UNCHANGED <<remote, cfg, upSem, locals, ghost, existing_keys, up, sync,
                   search, mapping, units>>

\* -------------------------------------------- startup_ingest: _index_one_doc
CallOps == {"lex_exists", "lex_write", "emb_exists", "embed", "chunk_write"}

Want(op) ==
    CASE op = "lex_exists" -> "want_lex_exists"
      [] op = "lex_write" -> "want_lex_write"
      [] op = "emb_exists" -> "want_emb_exists"
      [] op = "embed" -> "want_embed"
      [] op = "chunk_write" -> "want_chunk_write"

Wanted(p) ==
    CASE p = "want_lex_exists" -> "lex_exists"
      [] p = "want_lex_write" -> "lex_write"
      [] p = "want_emb_exists" -> "emb_exists"
      [] p = "want_embed" -> "embed"
      [] p = "want_chunk_write" -> "chunk_write"

WantStates == { Want(op) : op \in CallOps }

\* The coroutine of document d runs on, with the semaphore values os1 and em1
\* it has left behind, until its next suspension: `async with sem` issues the
\* call `next` when the semaphore can be acquired and waits for it otherwise;
\* "returned" and "raised" leave _guarded and release doc_sem.
Continue(d, os1, em1, next, i) ==
    LET isCall == next \in CallOps
        viaEmbed == next = "embed"
        go == isCall /\ (IF viaEmbed THEN CanAcquire(em1) ELSE CanAcquire(os1))
    IN /\ dpc' = [dpc EXCEPT ![d] = IF isCall /\ ~go THEN Want(next) ELSE next]
       /\ osSem' = IF go /\ ~viaEmbed THEN os1 - 1 ELSE os1
       /\ embedSem' = IF go /\ viaEmbed THEN em1 - 1 ELSE em1
       /\ docSem' = IF isCall THEN docSem ELSE docSem + 1
       /\ issued' = IF go THEN [issued EXCEPT ![Call(next, d, i)] = @ + 1] ELSE issued

\* _guarded: async with doc_sem, then _index_one_doc up to its first call.
\* gather starts the tasks in list order and a semaphore serves its waiters
\* first come, first served.
GuardedStart(d) ==
    /\ pc = "indexing"
    /\ dpc[d] = "wait_doc_sem"
    /\ \A e \in Docs : e < d => dpc[e] # "wait_doc_sem"
    /\ CanAcquire(docSem)
    /\ LET isGo == CanAcquire(osSem)
       IN /\ dpc' = [dpc EXCEPT ![d] = IF isGo THEN "lex_exists" ELSE Want("lex_exists")]
          /\ osSem' = IF isGo THEN osSem - 1 ELSE osSem
          /\ issued' = IF isGo THEN [issued EXCEPT ![Call("lex_exists", d, 0)] = @ + 1]
                       ELSE issued
    /\ docSem' = docSem - 1
    /\ UNCHANGED <<remote, cfg, upSem, embedSem, locals, okCalls, failedCalls,
                   vecAtCheck, pc, existing_keys, up, result, logged, start, sync,
                   search, mapping, units>>

\* A coroutine waiting in `async with sem` gets the semaphore and issues its call.
SemaphoreWakes(d) ==
    /\ pc = "indexing"
    /\ dpc[d] \in WantStates
    /\ IF Wanted(dpc[d]) = "embed" THEN CanAcquire(embedSem) ELSE CanAcquire(osSem)
    /\ Continue(d, osSem, embedSem, Wanted(dpc[d]), di[d])
    /\ UNCHANGED <<remote, cfg, upSem, locals, okCalls, failedCalls, vecAtCheck, pc,
                   existing_keys, up, result, logged, start, sync,
                   search, mapping, units>>

\* text_document_exists returns (lines 148-151)
LexExistsReturns(d) ==
    /\ pc = "indexing"
    /\ dpc[d] = "lex_exists"
    /\ okCalls' = okCalls \cup {Call("lex_exists", d, 0)}
    /\ Continue(d, osSem + 1, embedSem,
                IF text_document_exists(lexIdx, d) THEN "emb_exists" ELSE "lex_write", 0)
    /\ UNCHANGED <<remote, cfg, upSem, locals, failedCalls, vecAtCheck, pc,
                   existing_keys, up, result, logged, start, sync,
                   search, mapping, units>>

\* index_text_document returns (lines 152-162): indexed_text = 1
LexWriteReturns(d) ==
    /\ pc = "indexing"
    /\ dpc[d] = "lex_write"
    /\ lexIdx' = lexIdx \cup {doc_id_from_rel_path(d)}
    /\ indexed_text' = [indexed_text EXCEPT ![d] = 1]
    /\ okCalls' = okCalls \cup {Call("lex_write", d, 0)}
    /\ Continue(d, osSem + 1, embedSem, "emb_exists", 0)
    /\ UNCHANGED <<s3Objects, s3Foreign, vecIdx, cfg, upSem, di, indexed_chunks,
                   failedCalls, vecAtCheck, pc, existing_keys, up, result, logged,
                   start, sync,
                   search, mapping, units>>

NextChunkOffByOne(d, i) ==
    IF i + 1 < Len(split_text_into_phrases(content[d])) THEN "embed" ELSE "returned"

\* What follows chunk i - 1: the embedding of chunk i, or the return.
NextChunk(d, i) ==
    IF i < Len(split_text_into_phrases(content[d])) THEN "embed" ELSE "returned"

\* embeddings_exist_for_doc returns (lines 161-171)
EmbExistsReturns(d) ==
    /\ pc = "indexing"
    /\ dpc[d] = "emb_exists"
    /\ okCalls' = okCalls \cup {Call("emb_exists", d, 0)}
    /\ vecAtCheck' = [vecAtCheck EXCEPT ![d] = count_by_term(vecIdx, d)]
    /\ di' = [di EXCEPT ![d] = 0]
    /\ Continue(d, osSem + 1, embedSem,
                IF embeddings_exist_for_doc(vecIdx, d) THEN "returned" ELSE NextChunk(d, 0),
                0)
    /\ UNCHANGED <<remote, cfg, upSem, indexed_text, indexed_chunks, failedCalls, pc,
                   existing_keys, up, result, logged, start, sync,
                   search, mapping, units>>

\* _embed returns the vector of phrase i (lines 166-173)
EmbedReturns(d) ==
    /\ pc = "indexing"
    /\ dpc[d] = "embed"
    /\ okCalls' = okCalls \cup {Call("embed", d, di[d])}
    /\ Continue(d, osSem, embedSem + 1, "chunk_write", di[d])
    /\ UNCHANGED <<remote, cfg, upSem, locals, failedCalls, vecAtCheck, pc,
                   existing_keys, up, result, logged, start, sync,
                   search, mapping, units>>

\* index_embedding_document returns (lines 173-185): indexed_chunks += 1
ChunkWriteReturns(d) ==
    /\ pc = "indexing"
    /\ dpc[d] = "chunk_write"
    /\ vecIdx' = vecIdx \cup {ChunkId(d, di[d])}
    /\ indexed_chunks' = [indexed_chunks EXCEPT ![d] = @ + 1]
    /\ di' = [di EXCEPT ![d] = @ + 1]
    /\ okCalls' = okCalls \cup {Call("chunk_write", d, di[d])}
    /\ Continue(d, osSem + 1, embedSem, NextChunk(d, di[d] + 1), di[d] + 1)
    /\ UNCHANGED <<s3Objects, s3Foreign, lexIdx, cfg, upSem, indexed_text, failedCalls,
                   vecAtCheck, pc, existing_keys, up, result, logged, start, sync,
                   search, mapping, units>>

\* Any call in flight raises: nothing in _index_one_doc catches, so the
\* exception leaves the semaphore blocks and ends the task of document d.
IndexCallRaises(d) ==
    /\ pc = "indexing"
    /\ dpc[d] \in CallOps
    /\ Cardinality({ c \in failedCalls : c[1] \in CallOps }) < MaxIndexFailures
    /\ failedCalls' = failedCalls \cup {Call(dpc[d], d, di[d])}
    /\ Continue(d, IF dpc[d] = "embed" THEN osSem ELSE osSem + 1,
                IF dpc[d] = "embed" THEN embedSem + 1 ELSE embedSem, "raised", 0)
    /\ UNCHANGED <<remote, cfg, upSem, locals, okCalls, vecAtCheck, pc, existing_keys,
                   up, result, logged, start, sync,
                   search, mapping, units>>

\* The _guarded tasks handed to gather.
IndexOutcome ==
    [d \in Docs |-> CASE dpc[d] = "returned" -> "ok"
                      [] dpc[d] = "raised" -> "failed"
                      [] OTHER -> "running"]

\* lines 195-209: results that are exceptions are logged and skipped, the
\* others are summed up, and the dict is returned.
IndexingGathered ==
    /\ pc = "indexing"
    /\ GatherDone(IndexOutcome)
    /\ LET good == { d \in Docs : dpc[d] = "returned" }
       IN result' = [result EXCEPT
                        !.local_docs = Cardinality(Docs),
                        !.search_indexed = SumOver(good, indexed_text),
                        !.vector_chunks_indexed = SumOver(good, indexed_chunks)]
    /\ logged' = logged \cup { <<"OpenSearch ingestion failed", d>> :
                                 d \in { e \in Docs : dpc[e] = "raised" } }
    /\ pc' = "returned"
    /\ UNCHANGED <<remote, cfg, sems, locals, ghost, existing_keys, up, dpc, sync,
                   search, mapping, units>>

Next ==
    \/ DocsDirMissing
    \/ ListFilesReturns
    \/ ListFilesRaises
    \/ \E d \in Docs : UploadStart(d)
    \/ \E d \in Docs : UploadReturns(d)
    \/ \E d \in Docs : UploadRaises(d)
    \/ UploadsGathered
    \/ \E d \in Docs : GuardedStart(d)
    \/ \E d \in Docs : SemaphoreWakes(d)
    \/ \E d \in Docs : LexExistsReturns(d)
    \/ \E d \in Docs : LexWriteReturns(d)
    \/ \E d \in Docs : EmbExistsReturns(d)
    \/ \E d \in Docs : EmbedReturns(d)
    \/ \E d \in Docs : ChunkWriteReturns(d)
    \/ \E d \in Docs : IndexCallRaises(d)
    \/ IndexingGathered

Spec == Init /\ [][Next]_vars

\* ------------------------- SageMakerDocsSyncService.startup_check_and_sync_docs
\* _planned_upload_item: None when the key is listed, (path, key) otherwise
planned_upload_item(keys, d) == IF Key(d) \in keys THEN {} ELSE {d}

\* lines 55-58
SyncDocsDirMissing ==
    /\ spc = "start"
    /\ ~docsDirOk
    /\ spc' = "returned"
    /\ UNCHANGED <<remote, cfg, ghost, ingest, syncConc, sup, semaphore, succeeded,
                   failed, syncLog, search, mapping, units>>

\* lines 60-100: the listing returns, the plan is made, and with something
\* to upload the semaphore and the tasks are created.  asyncio.Semaphore
\* raises ValueError for a negative value.
SyncListReturns ==
    /\ spc = "start"
    /\ docsDirOk
    /\ LET keys == list_files(s3Objects, s3Foreign, Prefix, MaxKeysDefault)
           planned == UNION { planned_upload_item(keys, d) : d \in Docs }
       IN /\ existing_keys' = keys
          /\ issued' = [issued EXCEPT ![ListCall] = @ + 1]
          /\ okCalls' = okCalls \cup {ListCall}
          /\ IF planned = {}
             THEN spc' = "returned" /\ UNCHANGED <<sup, semaphore>>
             ELSE IF syncConc < 0
             THEN spc' = "raised" /\ UNCHANGED <<sup, semaphore>>
             ELSE /\ spc' = "uploading"
                  /\ semaphore' = syncConc
                  /\ sup' = [d \in Docs |-> IF d \in planned THEN "waiting" ELSE "none"]
    /\ UNCHANGED <<remote, cfg, failedCalls, vecAtCheck, start, sems, locals, pc, up,
                   dpc, result, logged, syncConc, succeeded, failed, syncLog, search, mapping, units>>

\* line 65: list_files raises and nothing catches it
SyncListRaises ==
    /\ spc = "start"
    /\ docsDirOk
    /\ spc' = "raised"
    /\ issued' = [issued EXCEPT ![ListCall] = @ + 1]
    /\ failedCalls' = failedCalls \cup {ListCall}
    /\ UNCHANGED <<remote, cfg, okCalls, vecAtCheck, start, ingest, syncConc, sup,
                   semaphore, succeeded, failed, syncLog, search, mapping, units>>

\* _upload_one: async with semaphore -> upload_local_file is issued
SyncUploadStart(d) ==
    /\ spc = "uploading"
    /\ sup[d] = "waiting"
    /\ \A e \in Docs : e < d => sup[e] # "waiting"
    /\ CanAcquire(semaphore)
    /\ semaphore' = semaphore - 1
    /\ sup' = [sup EXCEPT ![d] = "inflight"]
    /\ issued' = [issued EXCEPT ![Call("put", d, 0)] = @ + 1]
    /\ UNCHANGED <<remote, cfg, okCalls, failedCalls, vecAtCheck, start, ingest,
                   syncConc, spc, succeeded, failed, syncLog, search, mapping, units>>

\* line 94: return (key, True, None)
SyncUploadReturns(d) ==
    /\ spc = "uploading"
    /\ sup[d] = "inflight"
    /\ semaphore' = semaphore + 1
    /\ sup' = [sup EXCEPT ![d] = "done_ok"]
    /\ s3Objects' = s3Objects \cup {Key(d)}
    /\ okCalls' = okCalls \cup {Call("put", d, 0)}
    /\ UNCHANGED <<s3Foreign, lexIdx, vecIdx, cfg, issued, failedCalls, vecAtCheck,
                   start, ingest, syncConc, spc, succeeded, failed, syncLog, search, mapping, units>>

\* lines 95-98: the exception is caught, return (key, False, str(exc))
SyncUploadRaises(d) ==
    /\ spc = "uploading"
    /\ sup[d] = "inflight"
    /\ semaphore' = semaphore + 1
    /\ sup' = [sup EXCEPT ![d] = "done_failed"]
    /\ failedCalls' = failedCalls \cup {Call("put", d, 0)}
    /\ UNCHANGED <<remote, cfg, issued, okCalls, vecAtCheck, start, ingest, syncConc,
                   spc, succeeded, failed, syncLog, search, mapping, units>>

TallyAllSucceeded(ok, counters) == [counters EXCEPT !.succeeded = @ + 1]

\* lines 111-116: one result of the as_completed loop is counted
Tally(ok, counters) ==
    IF ok THEN [counters EXCEPT !.succeeded = @ + 1]
    ELSE [counters EXCEPT !.failed = @ + 1]

\* lines 105-116: as_completed hands over a finished task
SyncAwaitNext(d) ==
    /\ spc = "uploading"
    /\ sup[d] \in {"done_ok", "done_failed"}
    /\ LET t == Tally(sup[d] = "done_ok", [succeeded |-> succeeded, failed |-> failed])
       IN succeeded' = t.succeeded /\ failed' = t.failed
    /\ syncLog' = IF sup[d] = "done_failed" THEN syncLog \cup {Key(d)} ELSE syncLog
    /\ sup' = [sup EXCEPT ![d] = IF sup[d] = "done_ok" THEN "ok" ELSE "failed"]
    /\ UNCHANGED <<remote, cfg, ghost, ingest, syncConc, spc, semaphore, search, mapping, units>>

\* lines 118-123: every task has been awaited, the summary is logged
SyncComplete ==
    /\ spc = "uploading"
    /\ \A d \in Docs : sup[d] \in {"none", "ok", "failed"}
    /\ spc' = "complete"
    /\ UNCHANGED <<remote, cfg, ghost, ingest, syncConc, sup, semaphore, succeeded,
                   failed, syncLog, search, mapping, units>>

NextSync ==
    \/ SyncDocsDirMissing
    \/ SyncListReturns
    \/ SyncListRaises
    \/ \E d \in Docs : SyncUploadStart(d)
    \/ \E d \in Docs : SyncUploadReturns(d)
    \/ \E d \in Docs : SyncUploadRaises(d)
    \/ \E d \in Docs : SyncAwaitNext(d)
    \/ SyncComplete

\* One pass of startup_check_and_sync_docs.
InitSync ==
    /\ docsDirOk \in BOOLEAN
    /\ conf = <<0, 0, 0>>
    /\ s3_prefix \in Prefixes
    /\ IngestInit("idle")
    /\ syncConc \in SyncLimits
    /\ SyncInit("start")
    /\ SearchIdle
    /\ MappingIdle
    /\ UnitsIdle
    /\ RemoteInit
    /\ GhostInit

SpecSync == InitSync /\ [][NextSync]_vars

\* One pass with the event loop running every task that can go on: a task
\* that can take the semaphore takes it, an upload in flight returns or
\* raises, a finished task is handed to the as_completed loop.
SpecSyncLive == InitSync /\ [][NextSync]_vars /\ WF_vars(NextSync)

\* A behaviour is one ingestion run or one sync pass.
SpecAll == (Init \/ InitSync) /\ [][Next \/ NextSync]_vars

\* A run for each corpus and each environment, the documents all left in the
\* same way by what ran before.
InitLive ==
    /\ docsDirOk \in BOOLEAN
    /\ \E env \in Environments : conf = env.limits /\ s3_prefix = env.prefix
    /\ IngestInit("start")
    /\ syncConc = SyncConcurrencyDefault
    /\ SyncInit("idle")
    /\ SearchIdle
    /\ MappingIdle
    /\ UnitsIdle
    /\ \E p \in Profiles, c \in Contents :
          IF docsDirOk THEN UniformRemoteInit(p, c) ELSE UniformRemoteInit("absent", c)
    /\ GhostInit

\* The event loop runs every task that can go on, and every remote call in
\* flight returns or raises: a step that stays possible is taken.
SpecLive == InitLive /\ [][Next]_vars /\ WF_vars(Next)

\* ------------------------------------- startup_ingest, one start after another
\* startup_ingest_sagemaker_docs is the "idempotent startup ingestion": it is
\* called again at a later start, against the stores the earlier runs left.
\* The chunk loop of document d ended in an exception after at least one
\* index_embedding_document had returned (indexed_chunks += 1, line 183).
ChunkBatchBroken(d) == dpc[d] = "raised" /\ indexed_chunks[d] >= 1

\* The run is over (it returned or raised) and the application starts again:
\* every local of the function is fresh, the stores are as they were left.
StartsAgain ==
    /\ pc \in {"returned", "raised"}
    /\ stuck' = stuck \cup { d \in Docs : ChunkBatchBroken(d) }
    /\ pc' = "start"
    /\ existing_keys' = {}
    /\ up' = [d \in Docs |-> "none"]
    /\ upSem' = 0 /\ osSem' = 0 /\ embedSem' = 0 /\ docSem' = 0
    /\ dpc' = [d \in Docs |-> "idle"]
    /\ di' = [d \in Docs |-> 0]
    /\ indexed_text' = [d \in Docs |-> 0]
    /\ indexed_chunks' = [d \in Docs |-> 0]
    /\ result' = ZeroResult
    /\ logged' = {}
    /\ issued' = [c \in Calls |-> 0]
    /\ okCalls' = {}
    /\ failedCalls' = {}
    /\ vecAtCheck' = [d \in Docs |-> -1]
    /\ start' = [s3 |-> s3Objects, foreign |-> s3Foreign, lex |-> lexIdx, vec |-> vecIdx]
    /\ UNCHANGED <<remote, cfg, sync, search, mapping, client, embedding, ids, other,
                   collection>>

NextRuns == Next \/ StartsAgain

\* The first start finds the bucket and both indexes empty; the corpus is the
\* one whose documents have one phrase, two phrases, and so on.
InitRuns ==
    /\ docsDirOk \in BOOLEAN
    /\ \E env \in Environments : conf = env.limits /\ s3_prefix = env.prefix
    /\ IngestInit("start")
    /\ syncConc = SyncConcurrencyDefault
    /\ SyncInit("idle")
    /\ SearchIdle
    /\ MappingIdle
    /\ UnitsIdle
    /\ content = Corpus(1)
    /\ s3Objects = {} /\ s3Foreign = 0 /\ lexIdx = {} /\ vecIdx = {}
    /\ GhostInit

SpecRuns == InitRuns /\ [][NextRuns]_vars

\* ----------------------------------- startup_ingest, two runs at the same time
\* A second run of the same function, by another process with the same local
\* files and environment, works on the same bucket and indexes.  Each of its
\* remote calls takes effect on the stores at one instant, which is its step
\* here; its upload, index-call and embedding semaphores and its embedding
\* calls only delay those instants, so every order of calls they allow is
\* among the orders of these steps.  Its doc_sem admits doc_conc documents at
\* a time, in list order.

\* lines 103-111 of the second run: its listing and its plan
OtherListFilesReturns ==
    /\ pc2 = "start"
    /\ LET keys == list_files(s3Objects, s3Foreign, Prefix, MaxKeysDefault)
           planned == PlannedUploads(keys)
       IN /\ existing_keys2' = keys
          /\ up2' = [d \in Docs |-> IF d \in planned THEN "waiting" ELSE "none"]
          /\ pc2' = "uploading"
    /\ UNCHANGED <<remote, cfg, ghost, ingest, sync, search, mapping,
                   client, embedding, ids, collection, again, dpc2, di2>>

\* line 120 of the second run: upload_local_file returns
OtherUploadReturns(d) ==
    /\ pc2 = "uploading"
    /\ up2[d] = "waiting"
    /\ up2' = [up2 EXCEPT ![d] = "ok"]
    /\ s3Objects' = s3Objects \cup {Key(d)}
    /\ UNCHANGED <<s3Foreign, lexIdx, vecIdx, cfg, ghost, ingest, sync, search, mapping,
                   client, embedding, ids, collection, again, pc2, existing_keys2, dpc2, di2>>

\* lines 114-195 of the second run: its uploads (if any) are gathered and its
\* _guarded tasks are created
OtherUploadsGathered ==
    /\ pc2 = "uploading"
    /\ \A d \in Docs : up2[d] # "waiting"
    /\ pc2' = "indexing"
    /\ dpc2' = [d \in Docs |-> "wait_doc_sem"]
    /\ UNCHANGED <<remote, cfg, ghost, ingest, sync, search, mapping,
                   client, embedding, ids, collection, again, existing_keys2, up2, di2>>

\* lines 191-193 of the second run: _guarded(d) gets doc_sem
OtherGuardedStarts(d) ==
    /\ dpc2[d] = "wait_doc_sem"
    /\ \A e \in Docs : e < d => dpc2[e] # "wait_doc_sem"
    /\ Cardinality({ e \in Docs : dpc2[e] \notin {"wait_doc_sem", "returned"} })
          < doc_conc(conf[2])

\* lines 148-150 of the second run, the first call of _index_one_doc
OtherLexExistsReturns(d) ==
    /\ pc2 = "indexing"
    /\ OtherGuardedStarts(d)
    /\ dpc2' = [dpc2 EXCEPT ![d] = IF text_document_exists(lexIdx, d) THEN "emb_exists"
                                   ELSE "lex_write"]
    /\ UNCHANGED <<remote, cfg, ghost, ingest, sync, search, mapping,
                   client, embedding, ids, collection, again, pc2, existing_keys2, up2, di2>>

\* lines 151-159 of the second run
OtherLexWriteReturns(d) ==
    /\ pc2 = "indexing"
    /\ dpc2[d] = "lex_write"
    /\ lexIdx' = lexIdx \cup {doc_id_from_rel_path(d)}
    /\ dpc2' = [dpc2 EXCEPT ![d] = "emb_exists"]
    /\ UNCHANGED <<s3Objects, s3Foreign, vecIdx, cfg, ghost, ingest, sync, search, mapping,
                   client, embedding, ids, collection, again, pc2, existing_keys2, up2, di2>>

\* What follows chunk i - 1 in the second run: the embedding and the write of
\* chunk i, or the return.
OtherNextChunk(d, i) ==
    IF NextChunk(d, i) = "embed" THEN "chunk_write" ELSE "returned"

\* lines 161-170 of the second run
OtherEmbExistsReturns(d) ==
    /\ pc2 = "indexing"
    /\ dpc2[d] = "emb_exists"
    /\ dpc2' = [dpc2 EXCEPT ![d] = IF embeddings_exist_for_doc(vecIdx, d) THEN "returned"
                                   ELSE OtherNextChunk(d, 0)]
    /\ UNCHANGED <<remote, cfg, ghost, ingest, sync, search, mapping,
                   client, embedding, ids, collection, again, pc2, existing_keys2, up2, di2>>

ChunkIdOfItsOwn(d, i) == <<doc_id_from_rel_path(d), i + MaxChunks>>

\* line 172 of the second run: the same doc_id and i give the same chunk_id
ChunkIdInOtherRun(d, i) == ChunkId(d, i)

\* lines 171-183 of the second run: phrase i is embedded and chunk i written
OtherChunkWriteReturns(d) ==
    /\ pc2 = "indexing"
    /\ dpc2[d] = "chunk_write"
    /\ vecIdx' = vecIdx \cup {ChunkIdInOtherRun(d, di2[d])}
    /\ di2' = [di2 EXCEPT ![d] = @ + 1]
    /\ dpc2' = [dpc2 EXCEPT ![d] = OtherNextChunk(d, di2[d] + 1)]
    /\ UNCHANGED <<s3Objects, s3Foreign, lexIdx, cfg, ghost, ingest, sync, search, mapping,
                   client, embedding, ids, collection, again, pc2, existing_keys2, up2>>

\* lines 195-209 of the second run
OtherIndexingGathered ==
    /\ pc2 = "indexing"
    /\ \A d \in Docs : dpc2[d] = "returned"
    /\ pc2' = "returned"
    /\ UNCHANGED <<remote, cfg, ghost, ingest, sync, search, mapping,
                   client, embedding, ids, collection, again, existing_keys2, up2, dpc2, di2>>

\* The steps of the two runs when no remote call fails.
NextPair ==
    \/ ListFilesReturns
    \/ \E d \in Docs : UploadStart(d)
    \/ \E d \in Docs : UploadReturns(d)
    \/ UploadsGathered
    \/ \E d \in Docs : GuardedStart(d)
    \/ \E d \in Docs : SemaphoreWakes(d)
    \/ \E d \in Docs : LexExistsReturns(d)
    \/ \E d \in Docs : LexWriteReturns(d)
    \/ \E d \in Docs : EmbExistsReturns(d)
    \/ \E d \in Docs : EmbedReturns(d)
    \/ \E d \in Docs : ChunkWriteReturns(d)
    \/ IndexingGathered
    \/ OtherListFilesReturns
    \/ \E d \in Docs : OtherUploadReturns(d)
    \/ OtherUploadsGathered
    \/ \E d \in Docs : OtherLexExistsReturns(d)
    \/ \E d \in Docs : OtherLexWriteReturns(d)
    \/ \E d \in Docs : OtherEmbExistsReturns(d)
    \/ \E d \in Docs : OtherChunkWriteReturns(d)
    \/ OtherIndexingGathered

\* The stores the two runs find: every document left in the same way by
\* what ran before, the corpus being the one whose documents have one phrase,
\* two phrases, and so on.
PairRemoteInit == \E p \in Profiles : UniformRemoteInit(p, 1)

\* Both runs are at their start; the docs directory exists.
InitPair ==
    /\ docsDirOk = TRUE
    /\ \E env \in Environments : conf = env.limits /\ s3_prefix = env.prefix
    /\ IngestInit("start")
    /\ syncConc = SyncConcurrencyDefault
    /\ SyncInit("idle")
    /\ SearchIdle
    /\ MappingIdle
    /\ ClientIdle /\ EmbeddingIdle /\ IdsIdle /\ AgainIdle /\ CollectionIdle
    /\ OtherInit("start")
    /\ PairRemoteInit
    /\ GhostInit

SpecPair == InitPair /\ [][NextPair]_vars

\* ------------------------------- OpenSearchSetupService._setup_collection
\* _DEFAULT_COLLECTION_WAIT_SECONDS: float = 120.0
DefaultCollectionWaitSeconds == 120
\* _COLLECTION_POLL_INTERVAL_SECONDS: float = 2.0
CollectionPollIntervalSeconds == 2
\* the longest a batch_get_collection call takes, in seconds
MaxPollSeconds == 1

CollectionNames == {"docs", " ", ""}

\* What a batch_get_collection call gives: an exception, no collectionDetails,
\* or the details with their status (as the service spells it, or none).
PollAnswers ==
    {"raises", "no_details", "no_status", "CREATING", "ACTIVE", "active", "FAILED",
     "failed", "DELETING"}

\* (details[0].get("status") or "").upper()
upper(status) ==
    CASE status = "active" -> "ACTIVE"
      [] status = "failed" -> "FAILED"
      [] status = "no_status" -> ""
      [] OTHER -> status

collection_poll_error_ends_wait(answer) ==
    CASE answer = "raises" -> "raise"
      [] answer = "no_details" -> "sleep"
      [] upper(answer) \in {"ACTIVE"} -> "return"
      [] upper(answer) \in {"FAILED", "DELETING"} -> "raise"
      [] OTHER -> "sleep"

\* lines 177-197, one round of the loop: what the answer of the poll leads to
collection_poll(answer) ==
    CASE answer = "raises" -> "sleep"
      [] answer = "no_details" -> "sleep"
      [] upper(answer) \in {"ACTIVE"} -> "return"
      [] upper(answer) \in {"FAILED", "DELETING"} -> "raise"
      [] OTHER -> "sleep"

\* Everything of the model that _setup_collection leaves alone.
CollectionFrame ==
    UNCHANGED <<remote, cfg, ghost, ingest, sync, search, mapping,
                client, embedding, ids, again, other, collection_name>>

\* _collection_exists, lines 152-153: a blank name raises ValueError
CollectionNameRejected ==
    /\ kpc = "start"
    /\ collection_name \in {"", " "}
    /\ kpc' = "raised"
    /\ kgiven' = "ValueError"
    /\ UNCHANGED <<now, deadline, found, created, seen>>
    /\ CollectionFrame

\* lines 155-163: batch_get_collection answers the existence check; with
\* details the function returns, without it calls create_collection
CollectionExistsAnswered ==
    /\ kpc = "start"
    /\ collection_name \notin {"", " "}
    /\ \E answer \in {"exists", "absent", "raises"}, took \in 0..MaxPollSeconds :
          /\ found' = answer
          /\ now' = now + took
          /\ kpc' = CASE answer = "exists" -> "returned"
                      [] answer = "absent" -> "creating"
                      [] answer = "raises" -> "raised"
          /\ kgiven' = CASE answer = "exists" -> "return"
                         [] answer = "absent" -> kgiven
                         [] answer = "raises" -> "Failed checking collection exists"
    /\ UNCHANGED <<deadline, created, seen>>
    /\ CollectionFrame

\* while time.monotonic() < deadline, else line 199
LoopHead(t, limit) == IF t < limit THEN "polling" ELSE "raised"
LoopGiven(t, limit) == IF t < limit THEN "none" ELSE "Timed out waiting"

\* lines 166-175: create_collection returns and the deadline is set
CreateCollectionReturns ==
    /\ kpc = "creating"
    /\ created' = created + 1
    /\ deadline' = now + DefaultCollectionWaitSeconds
    /\ kpc' = LoopHead(now, deadline')
    /\ kgiven' = LoopGiven(now, deadline')
    /\ UNCHANGED <<now, found, seen>>
    /\ CollectionFrame

\* lines 168-173: create_collection raises
CreateCollectionRaises ==
    /\ kpc = "creating"
    /\ created' = created + 1
    /\ kpc' = "raised"
    /\ kgiven' = "Failed creating"
    /\ UNCHANGED <<now, deadline, found, seen>>
    /\ CollectionFrame

\* lines 177-195: the status poll is answered
CollectionPollAnswered ==
    /\ kpc = "polling"
    /\ \E answer \in PollAnswers, took \in 0..MaxPollSeconds :
          /\ seen' = answer
          /\ now' = now + took
          /\ kpc' = CASE collection_poll(answer) = "return" -> "returned"
                      [] collection_poll(answer) = "raise" -> "raised"
                      [] collection_poll(answer) = "sleep" -> "sleeping"
          /\ kgiven' = CASE collection_poll(answer) = "return" -> "return"
                         [] collection_poll(answer) = "raise" -> "unexpected status"
                         [] collection_poll(answer) = "sleep" -> kgiven
    /\ UNCHANGED <<deadline, found, created>>
    /\ CollectionFrame

\* lines 181 and 197: asyncio.sleep returns, then the loop condition
CollectionSleepReturns ==
    /\ kpc = "sleeping"
    /\ now' = now + CollectionPollIntervalSeconds
    /\ kpc' = LoopHead(now', deadline)
    /\ kgiven' = LoopGiven(now', deadline)
    /\ UNCHANGED <<deadline, found, created, seen>>
    /\ CollectionFrame

NextCollection ==
    \/ CollectionNameRejected
    \/ CollectionExistsAnswered
    \/ CreateCollectionReturns
    \/ CreateCollectionRaises
    \/ CollectionPollAnswered
    \/ CollectionSleepReturns

InitCollection ==
    /\ docsDirOk = FALSE
    /\ conf = <<0, 0, 0>>
    /\ s3_prefix = <<>>
    /\ IngestInit("idle")
    /\ syncConc = SyncConcurrencyDefault
    /\ SyncInit("idle")
    /\ SearchIdle
    /\ MappingIdle
    /\ ClientIdle /\ EmbeddingIdle /\ IdsIdle /\ AgainIdle /\ OtherInit("idle")
    /\ CollectionInit("start")
    /\ collection_name \in CollectionNames
    /\ content = Corpus(0)
    /\ s3Objects = {} /\ s3Foreign = 0 /\ lexIdx = {} /\ vecIdx = {}
    /\ GhostInit

\* Every call awaited (batch_get_collection, create_collection, sleep)
\* returns or raises.
SpecCollection == InitCollection /\ [][NextCollection]_vars /\ WF_vars(NextCollection)

\* ------------------------------------------- OpenSearchService.hybrid_search
Min(a, b) == IF a <= b THEN a ELSE b

\* cleaned_query = (query or "").strip()
cleaned_query_unstripped(q) == OrEmpty(q)

cleaned_query(q) == strip(OrEmpty(q))

clamp_upper_only(k) == Min(50, k)

\* max(1, min(50, int(k)))
clamp(k) == Max(1, Min(50, k))

\* re.sub(r"</?em>", "", text or "")
RECURSIVE strip_em_tags(_)
strip_em_tags(text) ==
    IF OrEmpty(text) = <<>> THEN <<>>
    ELSE IF Head(text) \in {"<em>", "</em>"} THEN strip_em_tags(Tail(text))
    ELSE <<Head(text)>> \o strip_em_tags(Tail(text))

\* _lexical_query: the request body sent to the search index
lexical_query(k) == [index |-> "lexical", size |-> k, knn_k |-> 0]

\* _vector_query: the request body sent to the vector index
vector_query(k) == [index |-> "vector", size |-> k, knn_k |-> k]

\* POST /{index}/_search: the engine answers with its `size` best hits.
search_engine(ranked, size) == SubSeq(ranked, 1, Min(size, Len(ranked)))

Contains(list, x) == \E n \in DOMAIN list : list[n] = x

add_phrase_doc_of_new_phrase_only(acc, phrase, doc) ==
    LET p == strip(OrEmpty(phrase))
        d == strip(doc)
    IN IF p = <<>> \/ Contains(acc.phrases, p) THEN acc
       ELSE [phrases |-> Append(acc.phrases, p),
             documents |-> IF doc # <<>> /\ d # <<>> /\ ~Contains(acc.documents, d)
                           THEN Append(acc.documents, d) ELSE acc.documents]

add_phrase_keeps_duplicates(acc, phrase, doc) ==
    LET p == strip(OrEmpty(phrase))
        d == strip(doc)
    IN IF p = <<>> THEN acc
       ELSE [phrases |-> Append(acc.phrases, p),
             documents |-> IF doc # <<>> /\ d # <<>> /\ ~Contains(acc.documents, d)
                           THEN Append(acc.documents, d) ELSE acc.documents]

\* _add_phrase: seen_phrases and seen_docs hold what the two lists hold
add_phrase(acc, phrase, doc) ==
    LET p == strip(OrEmpty(phrase))
        d == strip(doc)
    IN IF p = <<>> THEN acc
       ELSE [phrases |-> IF ~Contains(acc.phrases, p)
                         THEN Append(acc.phrases, p) ELSE acc.phrases,
             documents |-> IF doc # <<>> /\ d # <<>> /\ ~Contains(acc.documents, d)
                           THEN Append(acc.documents, d) ELSE acc.documents]

\* for hit in vector_resp hits: _add_phrase(text, path)
RECURSIVE MergeVector(_, _)
MergeVector(acc, hits) ==
    IF hits = <<>> THEN acc
    ELSE MergeVector(add_phrase(acc, Head(hits).text, OrEmpty(Head(hits).path)), Tail(hits))

\* for frag in highlights: _add_phrase(_strip_em_tags(frag), path)
RECURSIVE MergeFragments(_, _, _)
MergeFragments(acc, frags, path) ==
    IF frags = <<>> THEN acc
    ELSE MergeFragments(add_phrase(acc, strip_em_tags(Head(frags)), path), Tail(frags), path)

\* for hit in lexical_resp hits: the highlight fragments, or else the title
RECURSIVE MergeLexical(_, _)
MergeLexical(acc, hits) ==
    IF hits = <<>> THEN acc
    ELSE LET hit == Head(hits)
             path == OrEmpty(hit.path)
             title == OrEmpty(hit.title)
             next == IF hit.highlight # <<>> THEN MergeFragments(acc, hit.highlight, path)
                     ELSE IF title # <<>> THEN add_phrase(acc, title, path)
                     ELSE acc
         IN MergeLexical(next, Tail(hits))

MergeLexicalFirst(lexical_hits, vector_hits) ==
    MergeVector(MergeLexical([phrases |-> <<>>, documents |-> <<>>], lexical_hits),
                vector_hits)

\* lines 571-605: the vector hits are merged first, then the lexical hits
Merge(lexical_hits, vector_hits) ==
    MergeLexical(MergeVector([phrases |-> <<>>, documents |-> <<>>], vector_hits),
                 lexical_hits)

gather_as_completed(states) ==
    IF \E side \in Sides : states[side] = "failed" THEN "raise"
    ELSE IF \E side \in Sides : states[side] = "ok" THEN "return"
    ELSE "pending"

gather_return_exceptions(states) ==
    IF \A side \in Sides : states[side] \in {"ok", "failed"} THEN "return" ELSE "pending"

\* await asyncio.gather(a, b): raises the first exception of its awaitables
\* at once, returns their results when both have returned
gather(states) ==
    IF \E side \in Sides : states[side] = "failed" THEN "raise"
    ELSE IF \A side \in Sides : states[side] = "ok" THEN "return"
    ELSE "pending"

\* lines 554-556: an empty cleaned query returns ([], []) at once
HybridSearchRejects ==
    /\ hpc = "start"
    /\ cleaned_query(args.query) = <<>>
    /\ hpc' = "returned"
    /\ phrases' = <<>>
    /\ documents' = <<>>
    /\ UNCHANGED <<remote, cfg, ghost, ingest, sync, mapping, units, args, k_text, k_vector, lexRanked,
                   vecRanked, responses, arrival, embedCalls, requests, errors>>

\* lines 558-561: the counts are clamped, the embedding of the cleaned query
\* is awaited
HybridSearchEmbeds ==
    /\ hpc = "start"
    /\ cleaned_query(args.query) # <<>>
    /\ k_text' = clamp(k_text)
    /\ k_vector' = clamp(k_vector)
    /\ embedCalls' = embedCalls + 1
    /\ hpc' = "embedding"
    /\ UNCHANGED <<remote, cfg, ghost, ingest, sync, mapping, units, args, lexRanked, vecRanked,
                   responses, arrival, requests, phrases, documents, errors>>

\* lines 561-569: the embedding returns and gather starts both searches
EmbeddingReturns ==
    /\ hpc = "embedding"
    /\ requests' = {lexical_query(k_text), vector_query(k_vector)}
    /\ responses' = [side \in Sides |-> [state |-> "pending", hits |-> <<>>]]
    /\ hpc' = "searching"
    /\ UNCHANGED <<remote, cfg, ghost, ingest, sync, mapping, units, args, k_text, k_vector, lexRanked,
                   vecRanked, arrival, embedCalls, phrases, documents, errors>>

\* line 561: text_to_embedding raises DocumentServiceError, nothing catches
EmbeddingRaises ==
    /\ hpc = "embedding"
    /\ hpc' = "raised"
    /\ errors' = errors + 1
    /\ UNCHANGED <<remote, cfg, ghost, ingest, sync, mapping, units, args, k_text, k_vector, lexRanked,
                   vecRanked, responses, arrival, embedCalls, requests, phrases,
                   documents>>

\* lines 566-605: hybrid_search, when it waits in gather, goes on with what
\* gather gives for the tasks as they stand in resp: the merge and the
\* return, or the exception.
AwaitGather(resp) ==
    LET outcome == IF hpc = "searching"
                   THEN gather([side \in Sides |-> resp[side].state]) ELSE "pending"
        merged == Merge(resp["lexical"].hits, resp["vector"].hits)
    IN /\ hpc' = CASE outcome = "return" -> "returned"
                   [] outcome = "raise" -> "raised"
                   [] OTHER -> hpc
       /\ phrases' = IF outcome = "return" THEN merged.phrases ELSE phrases
       /\ documents' = IF outcome = "return" THEN merged.documents ELSE documents
       /\ errors' = IF outcome = "raise" THEN errors + 1 ELSE errors

\* _OpenSearchClient.search returns the parsed response of one index
SearchReturns(side) ==
    /\ hpc \in {"searching", "raised", "returned"}
    /\ responses[side].state = "pending"
    /\ LET size == IF side = "lexical" THEN k_text ELSE k_vector
           ranked == IF side = "lexical" THEN lexRanked ELSE vecRanked
           resp == [responses EXCEPT
                      ![side] = [state |-> "ok", hits |-> search_engine(ranked, size)]]
       IN responses' = resp /\ AwaitGather(resp)
    /\ arrival' = Append(arrival, side)
    /\ UNCHANGED <<remote, cfg, ghost, ingest, sync, mapping, units, args, k_text, k_vector, lexRanked,
                   vecRanked, embedCalls, requests>>

\* _OpenSearchClient.search raises OpenSearchUnexpectedResponseError
SearchRaises(side) ==
    /\ hpc \in {"searching", "raised", "returned"}
    /\ responses[side].state = "pending"
    /\ LET resp == [responses EXCEPT ![side] = [state |-> "failed", hits |-> <<>>]]
       IN responses' = resp /\ AwaitGather(resp)
    /\ arrival' = Append(arrival, side)
    /\ UNCHANGED <<remote, cfg, ghost, ingest, sync, mapping, units, args, k_text, k_vector, lexRanked,
                   vecRanked, embedCalls, requests>>

NextSearch ==
    \/ HybridSearchRejects
    \/ HybridSearchEmbeds
    \/ EmbeddingReturns
    \/ EmbeddingRaises
    \/ \E side \in Sides : SearchReturns(side)
    \/ \E side \in Sides : SearchRaises(side)

\* One call of hybrid_search; no ingestion runs.
InitSearch ==
    /\ docsDirOk = FALSE
    /\ conf = <<0, 0, 0>>
    /\ s3_prefix = <<>>
    /\ IngestInit("idle")
    /\ syncConc = SyncConcurrencyDefault
    /\ SyncInit("idle")
    /\ content = Corpus(0)
    /\ s3Objects = {} /\ s3Foreign = 0 /\ lexIdx = {} /\ vecIdx = {}
    /\ GhostInit
    /\ args \in SearchInputs
    /\ k_text = args.k_text
    /\ k_vector = args.k_vector
    /\ lexRanked \in RankedLists(LexicalHits, MaxHits)
    /\ vecRanked \in RankedLists(VectorHits, MaxHits)
    /\ SearchInit("start")
    /\ MappingIdle
    /\ UnitsIdle

SpecSearch == InitSearch /\ [][NextSearch]_vars

\* ------------------------------------------- _properties_cover_expected
\* int(raw) succeeds
Convertible(raw) == raw.kind \in {"int", "str"}

covers_ignoring_dimension(existing, expected) ==
    \A field \in DOMAIN expected :
        /\ field \in DOMAIN existing
        /\ expected[field].dict =>
              /\ existing[field].dict
              /\ expected[field].type # "" => existing[field].type = expected[field].type

\* The loop returns False at the first expected field that is missing, is
\* not a dict, has another type or, for knn_vector, has no dimension, one
\* int() rejects or another dimension; True when no field does.
properties_cover_expected(existing, expected) ==
    \A field \in DOMAIN expected :
        LET expected_spec == expected[field]
        IN /\ field \in DOMAIN existing
           /\ expected_spec.dict =>
                LET existing_spec == existing[field]
                IN /\ existing_spec.dict
                   /\ expected_spec.type # "" => existing_spec.type = expected_spec.type
                   /\ expected_spec.type = "knn_vector" =>
                         /\ expected_spec.dimension.kind # "none"
                         /\ existing_spec.dimension.kind # "none"
                         /\ Convertible(expected_spec.dimension)
                         /\ Convertible(existing_spec.dimension)
                         /\ expected_spec.dimension.value = existing_spec.dimension.value

\* mapping_covers_expected / _mapping_covers_expected: the check is made on
\* the properties read from the index and the expected ones
CoverageChecked ==
    /\ mpc = "start"
    /\ covers' = properties_cover_expected(existing_props, expected_props)
    /\ mpc' = "done"
    /\ UNCHANGED <<remote, cfg, ghost, ingest, sync, search, units, existing_props,
                   expected_props>>

NextMapping == CoverageChecked

\* One coverage check; nothing else runs.
InitMapping ==
    /\ docsDirOk = FALSE
    /\ conf = <<0, 0, 0>>
    /\ s3_prefix = <<>>
    /\ IngestInit("idle")
    /\ syncConc = SyncConcurrencyDefault
    /\ SyncInit("idle")
    /\ SearchIdle
    /\ UnitsIdle
    /\ content = Corpus(0)
    /\ s3Objects = {} /\ s3Foreign = 0 /\ lexIdx = {} /\ vecIdx = {}
    /\ GhostInit
    /\ mpc = "start"
    /\ existing_props \in Mappings(ExistingSpecs)
    /\ expected_props \in Mappings(ExpectedSpecs)
    /\ covers = FALSE

SpecMapping == InitMapping /\ [][NextMapping]_vars

\* ------------------------------------------------------------- the calls
IndexName == <<"i">>
BlankName == <<" ">>
DocumentId == <<"x">>
\* the mapping _setup_index creates the index with, and _search_mapping()
EmptyMapping == <<"properties">>
SearchMapping == <<"properties", "doc_id", "path", "title", "content", "source">>
ClientCalls ==
    { ClientCall("index_exists", n, NoArg, NoArg, NoArg) : n \in {IndexName, BlankName} }
    \cup { ClientCall("document_exists", IndexName, id, NoArg, NoArg) :
             id \in {DocumentId, BlankName} }
    \cup { ClientCall("create_index", n, NoArg, NoArg, m) :
             n \in {IndexName, NoArg}, m \in {EmptyMapping, SearchMapping} }
    \cup { ClientCall("index_document", IndexName, id, NoArg, <<"document">>) :
             id \in {DocumentId, NoArg} }
    \cup { ClientCall("search", n, NoArg, NoArg, <<"query">>) : n \in {IndexName, BlankName} }
    \cup { ClientCall("count_by_term", IndexName, NoArg, f, DocumentId) :
             f \in {<<"doc_id">>, BlankName} }
    \cup { ClientCall("setup_index", IndexName, NoArg, NoArg, EmptyMapping) }

Request(method, path, body) == [method |-> method, path |-> path, body |-> body]
HeadIndex(c) == Request("HEAD", <<c.index_name>>, NoArg)
PutIndex(c) == Request("PUT", <<c.index_name>>, <<"mappings", c.body>>)

\* not x or not x.strip()
IsBlank(x) == x = <<>> \/ strip(x) = <<>>

\* The arguments pass the checks made before the first request.
ArgumentsValid(c) ==
    CASE c.op \in {"document_exists", "index_document"} ->
             validate_index_name(c.index_name) /\ ~IsBlank(c.document_id)
      [] c.op = "count_by_term" ->
             ~IsBlank(c.field) /\ validate_index_name(c.index_name)
      [] OTHER -> validate_index_name(c.index_name)

FirstRequest(c) ==
    CASE c.op \in {"index_exists", "create_index", "setup_index"} -> HeadIndex(c)
      [] c.op = "document_exists" ->
             Request("HEAD", <<c.index_name, "_doc", c.document_id>>, NoArg)
      [] c.op = "index_document" ->
             Request("PUT", <<c.index_name, "_doc", c.document_id>>, c.body)
      [] c.op = "search" -> Request("POST", <<c.index_name, "_search">>, c.body)
      [] c.op = "count_by_term" ->
             Request("POST", <<c.index_name, "_search">>, <<"term", c.field, c.body>>)

FirstWait(c) ==
    CASE c.op = "index_exists" -> "index_head"
      [] c.op = "document_exists" -> "doc_head"
      [] c.op = "create_index" -> "probing"
      [] c.op = "index_document" -> "doc_put"
      [] c.op \in {"search", "count_by_term"} -> "searching"
      [] c.op = "setup_index" -> "setup_check"

Waiting == {"index_head", "doc_head", "probing", "creating", "doc_put", "searching",
            "setup_check"}

\* Statuses the engine may give a HEAD /{index}: the truthful one, or one
\* that does not say whether the index exists.
HeadAnswers(index_name) ==
    {IF index_name \in engine THEN 200 ELSE 404} \cup FaultStatuses

Answer(status, payload) == [status |-> status, payload |-> payload]
Got(status, payload) == answers' = Append(answers, Answer(status, payload))

Finish(o, why) ==
    /\ given' = o
    /\ cause' = IF o.kind = "raise" THEN why ELSE "none"
    /\ cpc' = "done"

\* A method is called: its argument checks run and its first request is sent.
ClientCalled(c) ==
    /\ cpc = "idle"
    /\ call' = c
    /\ IF ArgumentsValid(c)
       THEN /\ sent' = <<FirstRequest(c)>>
            /\ cpc' = FirstWait(c)
            /\ UNCHANGED <<given, cause>>
       ELSE /\ Finish(Raise("ValueError", 0, NoText), "validation")
            /\ UNCHANGED sent
    /\ UNCHANGED <<remote, cfg, ghost, ingest, sync, search, mapping, embedding, ids, rest,
                   engine, answers>>

\* _signed_request raises: connection error, timeout.
TransportFails ==
    /\ cpc \in Waiting
    /\ Finish(signed_request_failed, "transport")
    /\ UNCHANGED <<remote, cfg, ghost, ingest, sync, search, mapping, embedding, ids, rest,
                   call, engine, sent, answers>>

IndexExistsAnswered ==
    /\ cpc = "index_head"
    /\ \E status \in HeadAnswers(call.index_name) :
          Finish(index_exists(status), "status") /\ Got(status, EmptyPayload)
    /\ UNCHANGED <<remote, cfg, ghost, ingest, sync, search, mapping, embedding, ids, rest,
                   call, engine, sent>>

DocumentExistsAnswered ==
    /\ cpc = "doc_head"
    /\ \E status \in Statuses :
          Finish(document_exists(status), "status") /\ Got(status, EmptyPayload)
    /\ UNCHANGED <<remote, cfg, ghost, ingest, sync, search, mapping, embedding, ids, rest,
                   call, engine, sent>>

IndexDocumentAnswered ==
    /\ cpc = "doc_put"
    /\ \E status \in Statuses, payload \in ErrorPayloads :
          Finish(index_document(status, payload), "status") /\ Got(status, payload)
    /\ UNCHANGED <<remote, cfg, ghost, ingest, sync, search, mapping, embedding, ids, rest,
                   call, engine, sent>>

\* search returns or raises; count_by_term goes on with what search returned.
SearchAnswered ==
    /\ cpc = "searching"
    /\ \E status \in Statuses, payload \in SearchPayloads :
          LET r == search_response(status, payload)
          IN  /\ Got(status, payload)
              /\ IF r.kind = "raise"
                 THEN Finish(r, IF status # 200 THEN "status" ELSE "parse")
                 ELSE IF call.op = "search" THEN Finish(r, "none")
                 ELSE Finish(count_from_response(r.resp), "shape")
    /\ UNCHANGED <<remote, cfg, ghost, ingest, sync, search, mapping, embedding, ids, rest,
                   call, engine, sent>>

\* _setup_index's own existence check is answered: the index is there and
\* setup is done, or create_index_and_mapping is called and sends its probe.
SetupCheckAnswered ==
    /\ cpc = "setup_check"
    /\ \E status \in HeadAnswers(call.index_name) :
          LET r == index_exists(status)
          IN  /\ Got(status, EmptyPayload)
              /\ IF r.kind = "raise" THEN Finish(r, "status") /\ UNCHANGED sent
                 ELSE IF r.value = JsonBool(TRUE)
                 THEN Finish(ReturnNone, "none") /\ UNCHANGED sent
                 ELSE /\ sent' = Append(sent, HeadIndex(call))
                      /\ cpc' = "probing"
                      /\ UNCHANGED <<given, cause>>
    /\ UNCHANGED <<remote, cfg, ghost, ingest, sync, search, mapping, embedding, ids, rest,
                   call, engine>>

\* create_index_and_mapping's probe is answered: AlreadyExists, or the
\* creation request is sent.
ProbeAnswered ==
    /\ cpc = "probing"
    /\ \E status \in HeadAnswers(call.index_name) :
          LET r == index_exists(status)
          IN  /\ Got(status, EmptyPayload)
              /\ IF r.kind = "raise" THEN Finish(r, "status") /\ UNCHANGED sent
                 ELSE IF r.value = JsonBool(TRUE)
                 THEN /\ Finish(Raise("OpenSearchIndexAlreadyExistsError", 0, NoText),
                                "exists")
                      /\ UNCHANGED sent
                 ELSE /\ sent' = Append(sent, PutIndex(call))
                      /\ cpc' = "creating"
                      /\ UNCHANGED <<given, cause>>
    /\ UNCHANGED <<remote, cfg, ghost, ingest, sync, search, mapping, embedding, ids, rest,
                   call, engine>>

\* What create_index_and_mapping gives, and what _setup_index makes of it:
\* it returns None after the await, an exception passes through.
CreateOutcome(status, payload) ==
    LET r == create_index_and_mapping(status, payload)
    IN  IF call.op = "setup_index" /\ r.kind = "return" THEN ReturnNone ELSE r

\* The creation request is answered: the engine refuses an index it already
\* has, creates an absent one, or fails.
CreateAnswered ==
    /\ cpc = "creating"
    /\ \/ /\ call.index_name \in engine
          /\ Finish(CreateOutcome(400, TextPayload), "conflict")
          /\ Got(400, TextPayload)
          /\ UNCHANGED engine
       \/ /\ call.index_name \notin engine
          /\ \E status \in {200, 201}, payload \in AckPayloads :
                Finish(CreateOutcome(status, payload), "none") /\ Got(status, payload)
          /\ engine' = engine \cup {call.index_name}
       \/ /\ call.index_name \notin engine
          /\ \E status \in {204, 400, 500}, payload \in ErrorPayloads :
                Finish(CreateOutcome(status, payload), "status") /\ Got(status, payload)
          /\ UNCHANGED engine
    /\ UNCHANGED <<remote, cfg, ghost, ingest, sync, search, mapping, embedding, ids, rest,
                   call, sent>>

\* Another party creates the index while the call is under way.
OtherPartyCreates ==
    /\ cpc \in {"setup_check", "probing", "creating"}
    /\ call.index_name \notin engine
    /\ engine' = engine \cup {call.index_name}
    /\ UNCHANGED <<remote, cfg, ghost, ingest, sync, search, mapping, embedding, ids, rest,
                   cpc, call, sent,
                   given, cause, answers>>

NextClient ==
    \/ \E c \in ClientCalls : ClientCalled(c)
    \/ TransportFails
    \/ IndexExistsAnswered
    \/ DocumentExistsAnswered
    \/ IndexDocumentAnswered
    \/ SearchAnswered
    \/ SetupCheckAnswered
    \/ ProbeAnswered
    \/ CreateAnswered
    \/ OtherPartyCreates

\* One client call; the index exists or not when it starts.
InitClient ==
    /\ docsDirOk = FALSE
    /\ conf = <<0, 0, 0>>
    /\ s3_prefix = <<>>
    /\ IngestInit("idle")
    /\ syncConc = SyncConcurrencyDefault
    /\ SyncInit("idle")
    /\ SearchIdle
    /\ MappingIdle
    /\ content = Corpus(0)
    /\ s3Objects = {} /\ s3Foreign = 0 /\ lexIdx = {} /\ vecIdx = {}
    /\ GhostInit
    /\ cpc = "idle"
    /\ call = NoCall
    /\ engine \in SUBSET {IndexName}
    /\ EmbeddingIdle
    /\ IdsIdle
    /\ RestIdle
    /\ sent = <<>>
    /\ given = NoOutcome
    /\ cause = "none"
    /\ answers = <<>>

SpecClient == InitClient /\ [][NextClient]_vars

\* ======================================================== text_to_embedding
\* One call of DocumentService.text_to_embedding or of
\* DocumentTextService.text_to_embedding.

\* BEDROCK_EMBEDDING_DIM: not set, a number, or text that is no number.
EnvUnset == Absent
EnvNumber(n) == JsonNumStr(n)
EnvJunk == JsonStr
EnvDims == { EnvUnset, EnvNumber(3), EnvNumber(4), EnvNumber(0), EnvNumber(-1), EnvJunk }

\* Lengths of the vector embed_query may return.
VectorLengths == { 0, 3, 4, DefaultDimension }

EmbeddingServices == { "DocumentService", "DocumentTextService" }
EmbeddingCalls ==
    { [service |-> s, text |-> t, dim |-> e] :
        s \in EmbeddingServices, t \in { <<>>, <<" ">>, <<"t">> }, e \in EnvDims }

\* the error class of each service
ErrorOf(service) ==
    IF service = "DocumentService" THEN "DocumentServiceError"
    ELSE "DocumentTextServiceError"

\* _get_embeddings_dimensions: int(os.getenv("BEDROCK_EMBEDDING_DIM", 1024)),
\* the default when that is <= 0.
get_embeddings_dimensions(dim) ==
    LET n == IF dim = EnvUnset THEN DefaultDimension ELSE dim.num
    IN  IF n <= 0 THEN DefaultDimension ELSE n

Vector(len) == [kind |-> "return", len |-> len, error |-> "", message |-> ""]
EmbeddingError(service, message) ==
    [kind |-> "raise", len |-> 0, error |-> ErrorOf(service), message |-> message]

\* What the try block gives once embed_query returned a vector of length len:
\* int() of a junk setting raises inside the try, a wrong length raises the
\* service's error, which DocumentService re-raises and DocumentTextService
\* wraps again.
checked_embedding(c, len) ==
    IF ~IntConvertible(c.dim) /\ c.dim # EnvUnset
    THEN EmbeddingError(c.service, "Failed to embed text using Bedrock")
    ELSE IF len # get_embeddings_dimensions(c.dim)
    THEN EmbeddingError(c.service,
                        IF c.service = "DocumentService" THEN "Unexpected embedding size"
                        ELSE "Failed to embed text using Bedrock")
    ELSE Vector(len)

\* if not text: return []
EmptyTextReturns ==
    /\ epc = "start"
    /\ ecall.text = <<>>
    /\ egiven' = Vector(0)
    /\ epc' = "done"
    /\ UNCHANGED <<remote, cfg, ghost, ingest, sync, search, mapping, client, ids, rest, ecall>>

\* the try block is entered and embed_query is called
EmbedQueryCalled ==
    /\ epc = "start"
    /\ ecall.text # <<>>
    /\ epc' = "embedding"
    /\ UNCHANGED <<remote, cfg, ghost, ingest, sync, search, mapping, client, ids, rest, ecall,
                   egiven>>

EmbedQueryReturns ==
    /\ epc = "embedding"
    /\ \E len \in VectorLengths : egiven' = checked_embedding(ecall, len)
    /\ epc' = "done"
    /\ UNCHANGED <<remote, cfg, ghost, ingest, sync, search, mapping, client, ids, rest, ecall>>

\* Bedrock fails: except Exception
EmbedQueryRaises ==
    /\ epc = "embedding"
    /\ egiven' = EmbeddingError(ecall.service, "Failed to embed text using Bedrock")
    /\ epc' = "done"
    /\ UNCHANGED <<remote, cfg, ghost, ingest, sync, search, mapping, client, ids, rest, ecall>>

NextEmbedding ==
    \/ EmptyTextReturns
    \/ EmbedQueryCalled
    \/ EmbedQueryReturns
    \/ EmbedQueryRaises

\* One call of text_to_embedding.
InitEmbedding ==
    /\ docsDirOk = FALSE
    /\ conf = <<0, 0, 0>>
    /\ s3_prefix = <<>>
    /\ IngestInit("idle")
    /\ syncConc = SyncConcurrencyDefault
    /\ SyncInit("idle")
    /\ SearchIdle
    /\ MappingIdle
    /\ ClientIdle
    /\ IdsIdle
    /\ RestIdle
    /\ content = Corpus(0)
    /\ s3Objects = {} /\ s3Foreign = 0 /\ lexIdx = {} /\ vecIdx = {}
    /\ GhostInit
    /\ epc = "start"
    /\ ecall \in EmbeddingCalls
    /\ egiven = NoVector

SpecEmbedding == InitEmbedding /\ [][NextEmbedding]_vars

\* ====================================================== doc_id and chunk ids
\* The ids _index_one_doc computes for a document, in run after run, while
\* the local files are edited between the runs.
MaxRuns == 2

IdsOfContent(d) ==
    [rel_path |-> rel_key(d),
     content |-> content[d],
     doc_id |-> <<"sha256", content[d]>>,
     phrases |-> split_text_into_phrases(content[d]),
     chunk_ids |-> [n \in 1..Len(split_text_into_phrases(content[d])) |->
                      <<<<"sha256", content[d]>>, n - 1>>]]

\* _index_one_doc: doc_id from the relative path, the phrases of the
\* content read, and chunk_id = f"{doc_id}_{i}" for each phrase.
IdsOf(d) ==
    [rel_path |-> rel_key(d),
     content |-> content[d],
     doc_id |-> doc_id_from_rel_path(d),
     phrases |-> split_text_into_phrases(content[d]),
     chunk_ids |-> [n \in 1..Len(split_text_into_phrases(content[d])) |->
                      ChunkId(d, n - 1)]]

IdsComputed(d) ==
    /\ Len(runs) < MaxRuns
    /\ runs' = Append(runs, IdsOf(d))
    /\ UNCHANGED <<remote, cfg, ghost, ingest, sync, search, mapping, client, embedding, rest>>

\* A local file is rewritten between two runs; its path stays.
FileEdited(d) ==
    /\ \E c \in Contents \ {content[d]} : content' = [content EXCEPT ![d] = c]
    /\ UNCHANGED <<remote, docsDirOk, conf, s3_prefix, ghost, ingest, sync, search, mapping,
                   units>>

NextIds ==
    \/ \E d \in Docs : IdsComputed(d)
    \/ \E d \in Docs : FileEdited(d)

InitIds ==
    /\ docsDirOk = TRUE
    /\ conf = <<0, 0, 0>>
    /\ s3_prefix = <<>>
    /\ IngestInit("idle")
    /\ syncConc = SyncConcurrencyDefault
    /\ SyncInit("idle")
    /\ SearchIdle
    /\ MappingIdle
    /\ ClientIdle
    /\ EmbeddingIdle
    /\ RestIdle
    /\ \E c \in Contents : content = Corpus(c)
    /\ s3Objects = {} /\ s3Foreign = 0 /\ lexIdx = {} /\ vecIdx = {}
    /\ GhostInit
    /\ runs = <<>>

SpecIds == InitIds /\ [][NextIds]_vars

\* ================================================================ properties
WriteOps == {"put", "lex_write", "embed", "chunk_write"}
Issued(op, d) ==
    SumOver({ Call(op, d, i) : i \in 0..(MaxChunks - 1) } \cap Calls, issued)
Ok(op) == { c \in okCalls : c[1] = op }
Failed(op) == { c \in failedCalls : c[1] = op }
Phrases(d) == split_text_into_phrases(content[d])
ChunkIds(d) == { ChunkId(d, i) : i \in 0..(Len(Phrases(d)) - 1) }

\* Every local document had its key, its lexical entry and at least one chunk
\* in the remote stores when the run began.
PopulatedAtStart ==
    \A d \in Docs : /\ Key(d) \in start.s3
                    /\ text_document_exists(start.lex, d)
                    /\ count_by_term(start.vec, d) >= 1

\* C1: a run over a remote state that holds every document's key, lexical
\* entry and at least one chunk issues no upload, no lexical write, no
\* embedding call and no chunk write, and returns three zero counts.
C1_IdempotentRun ==
    (docsDirOk /\ PopulatedAtStart) =>
        /\ \A c \in Calls : c[1] \in WriteOps => issued[c] = 0
        /\ pc = "returned" =>
              /\ result.s3_uploaded = 0
              /\ result.search_indexed = 0
              /\ result.vector_chunks_indexed = 0

\* Each document had no chunk or every chunk of its content in the vector
\* index when the run began.
ChunksNoneOrFullAtStart ==
    \A d \in Docs : count_by_term(start.vec, d) = 0 \/ ChunkIds(d) \subseteq start.vec

\* C2: after a run without failed calls, started with each document's chunk
\* set empty or full, every local document has its key in object storage,
\* its entry in the lexical index and every chunk id in the vector index.
C2_ConsistentAfterRun ==
    (pc = "returned" /\ docsDirOk /\ failedCalls = {} /\ ChunksNoneOrFullAtStart) =>
        \A d \in Docs : /\ Key(d) \in s3Objects
                        /\ doc_id_from_rel_path(d) \in lexIdx
                        /\ ChunkIds(d) \subseteq vecIdx

\* a failure-free run has uploaded and indexed a document with several chunks
C2_Witness ==
    /\ pc = "returned" /\ docsDirOk /\ failedCalls = {} /\ ChunksNoneOrFullAtStart
    /\ \E d \in Docs : /\ Call("put", d, 0) \in okCalls
                       /\ Call("lex_write", d, 0) \in okCalls
                       /\ Len(Phrases(d)) = MaxChunks
                       /\ indexed_chunks[d] = MaxChunks

\* C3: a document whose embeddings check found at least one chunk gets no
\* embedding call and no chunk write in the run, whatever its content.
C3_ChunkSkip ==
    \A d \in Docs : vecAtCheck[d] >= 1 =>
        Issued("embed", d) = 0 /\ Issued("chunk_write", d) = 0

\* a document with one stale chunk and a longer content has been skipped
C3_Witness ==
    \E d \in Docs : /\ vecAtCheck[d] = 1
                    /\ Len(Phrases(d)) > 1
                    /\ dpc[d] = "returned"

\* C4: when the uploads of a pass are over, with N planned and F failed, the
\* pass reports N - F successes and F failures and every planned key whose
\* upload did not fail is in the bucket (sync pass: succeeded/failed;
\* ingestion run: s3_uploaded and one error record per failure).
C4_UploadCounts ==
    LET F == Cardinality(Failed("put"))
    IN /\ spc = "complete" =>
             LET planned == { d \in Docs : sup[d] # "none" }
             IN /\ succeeded = Cardinality(planned) - F
                /\ failed = F
                /\ Cardinality(syncLog) = F
                /\ \A d \in planned : Call("put", d, 0) \notin failedCalls => Key(d) \in s3Objects
       /\ pc \in {"indexing", "returned"} /\ docsDirOk =>
             LET planned == PlannedUploads(existing_keys)
             IN /\ result.s3_uploaded = Cardinality(planned) - F
                /\ Cardinality({ l \in logged : l[1] = "S3 upload failed" }) = F
                /\ \A d \in planned : Call("put", d, 0) \notin failedCalls => Key(d) \in s3Objects

\* a sync pass with one failed upload among several
C4_Witness ==
    /\ spc = "complete"
    /\ Cardinality(Failed("put")) = 1
    /\ succeeded = NumDocs - 1
    /\ failed = 1

\* C5: the returned search_indexed is the number of lexical writes that
\* succeeded in the run and vector_chunks_indexed the number of chunk writes
\* that succeeded.
C5_AccurateCounts ==
    pc = "returned" =>
        /\ result.search_indexed = Cardinality(Ok("lex_write"))
        /\ result.vector_chunks_indexed = Cardinality(Ok("chunk_write"))

\* The failure records an outcome carries: the returned dict has the four
\* count fields only.
FailureRecords(r) == IF "failures" \in DOMAIN r THEN r.failures ELSE {}

\* What a run without failures returns from the remote state the run began in.
SuccessfulOutcome ==
    [local_docs |-> Cardinality(Docs),
     s3_uploaded |->
        Cardinality(PlannedUploads(list_files(start.s3, start.foreign, Prefix, MaxKeysDefault))),
     search_indexed |->
        Cardinality({ d \in Docs : ~text_document_exists(start.lex, d) }),
     vector_chunks_indexed |->
        SumOver({ d \in Docs : ~embeddings_exist_for_doc(start.vec, d) },
                [d \in Docs |-> Len(Phrases(d))])]

\* C6: the outcome of a run in which F items failed carries F failure
\* records, so that it differs from the outcome of a fully successful run.
C6_FailureRecords ==
    (pc = "returned" /\ docsDirOk) =>
        /\ Cardinality(FailureRecords(result)) = Cardinality(failedCalls)
        /\ failedCalls # {} => result # SuccessfulOutcome

\* C7: whatever call fails, the run never raises to its caller.
C7_NeverRaises == pc # "raised"

\* C8: a failed lexical existence check or lexical write of a document does
\* not keep the document's chunk existence check from being made in the run.
C8_LexicalFailureContained ==
    pc = "returned" =>
        \A d \in Docs :
            (Call("lex_exists", d, 0) \in failedCalls \/ Call("lex_write", d, 0) \in failedCalls)
                => Issued("emb_exists", d) >= 1

\* C9: once gather has handed over, every planned upload has been issued and
\* has ended by itself, and at the return every document's task has been
\* started and has ended by itself, whatever failed meanwhile.
C9_NoSiblingCancelled ==
    /\ pc \in {"indexing", "returned"} /\ docsDirOk =>
          \A d \in PlannedUploads(existing_keys) :
              up[d] \in {"ok", "failed"} /\ Issued("put", d) = 1
    /\ pc = "returned" /\ docsDirOk =>
          \A d \in Docs :
              dpc[d] \in {"returned", "raised"} /\ Issued("lex_exists", d) = 1

\* an upload and a document task failed and a sibling of each succeeded
C9_Witness ==
    /\ pc = "returned"
    /\ \E d, e \in Docs : up[d] = "failed" /\ up[e] = "ok"
    /\ \E d, e \in Docs : dpc[d] = "raised" /\ dpc[e] = "returned"

InFlightUploads == { d \in Docs : up[d] = "inflight" }
InFlightIndexCalls ==
    { d \in Docs : dpc[d] \in {"lex_exists", "lex_write", "emb_exists", "chunk_write"} }
InFlightEmbeddings == { d \in Docs : dpc[d] = "embed" }

\* C10: at every point of a run at most max(1, upload limit) uploads, at most
\* max(1, index limit) search-index calls and at most max(1, embedding limit)
\* embedding computations are in flight.
C10_InFlightBounds ==
    /\ Cardinality(InFlightUploads) <= Max(1, conf[1])
    /\ Cardinality(InFlightIndexCalls) <= Max(1, conf[2])
    /\ Cardinality(InFlightEmbeddings) <= Max(1, conf[3])

\* an embedding is in flight at the limit while another document waits for
\* the embedding semaphore
C10_Witness ==
    \E d, e \in Docs : /\ dpc[d] = "embed"
                       /\ dpc[e] = "want_embed"
                       /\ Cardinality(InFlightEmbeddings) = Max(1, conf[3])

\* The documents whose _guarded task holds doc_sem: _index_one_doc has begun
\* and has neither returned nor raised.
WorkflowsInProgress ==
    { d \in Docs : dpc[d] \notin {"idle", "wait_doc_sem", "returned", "raised"} }

\* Index limits an operator may configure.
IndexLimits == -4..9

\* For every index limit the document-level bound is at most the index-call
\* limit.
WithinIndexLimit == \A n \in IndexLimits : doc_conc(n) <= SemaphoreValue(n)

\* C11: at every point of a run at most max(1, floor(index limit / 2))
\* per-document workflows are in progress, and for every index limit this
\* bound is at most the index-call limit max(1, index limit).
C11_DocumentLevelBound ==
    /\ Cardinality(WorkflowsInProgress) <= Max(1, conf[2] \div 2)
    /\ WithinIndexLimit

\* the workflows in progress are at the bound while a document waits for
\* doc_sem
C11_Witness ==
    /\ pc = "indexing"
    /\ Cardinality(WorkflowsInProgress) = Max(1, conf[2] \div 2)
    /\ \E d \in Docs : dpc[d] = "wait_doc_sem"

\* The write calls of the run, each with the target it writes: the
\* destination key, the doc_id or the chunk id.
Target(c) ==
    CASE c[1] = "put" -> Key(c[2])
      [] c[1] = "lex_write" -> doc_id_from_rel_path(c[2])
      [] c[1] = "chunk_write" -> ChunkId(c[2], c[3])

StoreWrites == { c \in Calls : c[1] \in {"put", "lex_write", "chunk_write"} }

\* Times a write to the target of call c was issued in the run.
AttemptsOn(c) ==
    LET target == Target(c)
    IN  SumOver({ e \in StoreWrites :
                    e[1] = c[1] /\ issued[e] >= 1 /\ Target(e) = target }, issued)

\* The writes the run found needed: the key was not in the listing, the
\* lexical existence check answered False, the embeddings check counted zero
\* chunks (then every phrase of the document needs its chunk written).
NeededWrites ==
    { Call("put", d, 0) : d \in PlannedUploads(existing_keys) }
    \cup { Call("lex_write", d, 0) :
             d \in { e \in Docs : /\ Call("lex_exists", e, 0) \in okCalls
                                  /\ ~text_document_exists(start.lex, e) } }
    \cup UNION { { Call("chunk_write", d, i) : i \in 0..(Len(Phrases(d)) - 1) } :
                 d \in { e \in Docs : vecAtCheck[e] = 0 } }

\* No write call was issued twice and no two write calls that were issued
\* had the same target: the issued calls have as many targets as they are.
AtMostOnce ==
    LET written == { c \in StoreWrites : issued[c] >= 1 }
    IN  /\ \A c \in written : issued[c] = 1
        /\ Cardinality({ <<c[1], Target(c)>> : c \in written }) = Cardinality(written)

\* A write that failed was issued once (and, with AtMostOnce, its target
\* was not written by another call).
NeverRetried == \A c \in failedCalls : c \in StoreWrites => issued[c] = 1

\* C12 as stated: every target is written at most once, a failed write is
\* not retried, and at the return every needed write has been attempted
\* exactly once.
C12_NeededWritesOnce ==
    /\ AtMostOnce
    /\ NeverRetried
    /\ (pc = "returned" /\ docsDirOk) => \A c \in NeededWrites : AttemptsOn(c) = 1

\* The chunk loop reaches chunk i only through the embeddings and the chunk
\* writes before it.
ChunkReached(d, i) ==
    /\ \A j \in 0..i : Call("embed", d, j) \in okCalls
    /\ \A j \in 0..(i - 1) : Call("chunk_write", d, j) \in okCalls

\* C12 amended: every target is written at most once and a failed write is
\* not retried; at the return a needed upload and a needed lexical write
\* have been attempted exactly once, and a needed chunk write exactly once
\* when the embeddings up to it and the chunk writes before it succeeded,
\* and not at all otherwise.
C12_NeededWritesOnceInBatch ==
    /\ AtMostOnce
    /\ NeverRetried
    /\ (pc = "returned" /\ docsDirOk) =>
          \A c \in NeededWrites :
              AttemptsOn(c) = IF c[1] = "chunk_write" /\ ~ChunkReached(c[2], c[3])
                              THEN 0 ELSE 1

\* a run has written the first chunk of a document, failed on the second
\* and returned; another run failed on an embedding and left a chunk unwritten
C12_Witness ==
    /\ pc = "returned"
    /\ \E d \in Docs :
          /\ vecAtCheck[d] = 0
          /\ Call("chunk_write", d, 0) \in okCalls
          /\ Call("chunk_write", d, 1) \in failedCalls
          /\ issued[Call("chunk_write", d, 1)] = 1
    /\ \E d \in Docs : Call("put", d, 0) \in failedCalls

\* The destination key as the contract words it: the configured prefix made to
\* end with "/", or no prefix when it is empty, then the relative path.
ContractKey(d) ==
    LET p == IF s3_prefix = <<>> THEN <<>>
             ELSE IF s3_prefix[Len(s3_prefix)] = "/" THEN s3_prefix
             ELSE s3_prefix \o <<"/">>
    IN p \o rel_key(d)

\* The listing has returned and the plan of the ingestion run is made.
IngestPlanMade == pc \in {"uploading", "indexing", "returned"} /\ docsDirOk

\* The listing has returned and the plan of the sync pass is made.
SyncPlanMade == spc \in {"uploading", "complete"} \/ (spc = "returned" /\ docsDirOk)

\* C13: once the plan of a pass is made, the listing has been called once,
\* the key set is still the listing of the bucket as it was at the start,
\* and a document is in the plan exactly if its destination key is not in
\* that key set.
C13_PlanFromSnapshot ==
    LET listed == list_files(start.s3, start.foreign, Prefix, MaxKeysDefault)
        absent == { d \in Docs : ContractKey(d) \notin existing_keys }
    IN /\ IngestPlanMade =>
             /\ issued[ListCall] = 1
             /\ existing_keys = listed
             /\ { d \in Docs : up[d] # "none" } = absent
       /\ SyncPlanMade =>
             /\ issued[ListCall] = 1
             /\ existing_keys = listed
             /\ { d \in Docs : sup[d] # "none" } = absent

\* under the prefix "p" a planned document, whose bare relative path was in
\* the bucket, has been uploaded during the pass, and a document with another
\* content was left out of the plan
C13_Witness ==
    /\ IngestPlanMade
    /\ s3_prefix = <<"p">>
    /\ \E d, e \in Docs :
          /\ up[d] = "ok"
          /\ rel_key(d) \in start.s3
          /\ Key(d) \in s3Objects \ existing_keys
          /\ up[e] = "none"
          /\ content[d] # content[e]

\* ------------------------------------------------ hybrid_search: the result
RECURSIVE Flatten(_)
Flatten(lists) == IF lists = <<>> THEN <<>> ELSE Head(lists) \o Flatten(Tail(lists))

\* A list without its later repetitions.
RECURSIVE Dedup(_)
Dedup(list) ==
    IF list = <<>> THEN <<>>
    ELSE LET front == Dedup(SubSeq(list, 1, Len(list) - 1))
             last == list[Len(list)]
         IN IF Contains(front, last) THEN front ELSE Append(front, last)

NoTwoEqual(list) == \A m, n \in DOMAIN list : list[m] = list[n] => m = n

Trimmed(str) == str # <<>> /\ str[1] # " " /\ str[Len(str)] # " "

Range(list) == { list[n] : n \in DOMAIN list }

\* What a hit of the vector index offers: its text with its path.
VectorOffers(hit) == << [phrase |-> strip(OrEmpty(hit.text)), doc |-> strip(OrEmpty(hit.path))] >>

\* What a hit of the search index offers: its highlight fragments without the
\* <em> tags, or without fragments its title, with its path.
LexicalOffers(hit) ==
    IF hit.highlight # <<>>
    THEN [n \in DOMAIN hit.highlight |->
            [phrase |-> strip(strip_em_tags(hit.highlight[n])), doc |-> strip(OrEmpty(hit.path))]]
    ELSE << [phrase |-> strip(OrEmpty(hit.title)), doc |-> strip(OrEmpty(hit.path))] >>

\* The offers with a phrase, in the engine's order.
Offers(hits, Of(_)) ==
    SelectSeq(Flatten([n \in DOMAIN hits |-> Of(hits[n])]), LAMBDA o : o.phrase # <<>>)

VectorResponse == responses["vector"].hits
LexicalResponse == responses["lexical"].hits

PhrasesOf(offers) == [n \in DOMAIN offers |-> offers[n].phrase]
DocsOf(offers) ==
    LET named == SelectSeq(offers, LAMBDA o : o.doc # <<>>)
    IN [n \in DOMAIN named |-> named[n].doc]

\* The responses of the contract's example.
ExampleResponses ==
    /\ VectorResponse = << [text |-> <<"A">>, path |-> <<"x">>] >>
    /\ LexicalResponse =
          << [path |-> <<"y">>, title |-> <<"T">>, highlight |-> << <<"B">> >>],
             [path |-> <<"x">>, title |-> <<"T">>, highlight |-> << <<"A">> >>] >>

\* C14: the returned phrases are the vector hits' phrases in engine order,
\* then the lexical hits' phrases in engine order that no vector hit gave,
\* each once; no phrase of a vector hit stands after a phrase that only a
\* lexical hit gave; the example's responses give (["A","B"], ["x","y"]).
C14_VectorThenLexical ==
    hpc = "returned" /\ cleaned_query(args.query) # <<>> =>
        LET vec == Dedup(PhrasesOf(Offers(VectorResponse, VectorOffers)))
            lex == Dedup(PhrasesOf(Offers(LexicalResponse, LexicalOffers)))
        IN /\ phrases = vec \o SelectSeq(lex, LAMBDA ph : ph \notin Range(vec))
           /\ \A m, n \in DOMAIN phrases :
                 (m < n /\ phrases[n] \in Range(vec)) => phrases[m] \in Range(vec)
           /\ ExampleResponses =>
                 /\ phrases = << <<"A">>, <<"B">> >>
                 /\ documents = << <<"x">>, <<"y">> >>

\* the example: vector hit ("A", "x"), lexical fragments "B" ("y"), "A" ("x")
C14_Witness ==
    /\ hpc = "returned"
    /\ ExampleResponses
    /\ phrases = << <<"A">>, <<"B">> >>

\* C15: the returned phrases and the returned documents each hold no value
\* twice, every entry is trimmed and not empty, and each list is the offers'
\* values in merge order (vector hits, then lexical hits), each value at its
\* first occurrence.
C15_Deduplicated ==
    hpc = "returned" =>
        LET offers == Offers(VectorResponse, VectorOffers)
                      \o Offers(LexicalResponse, LexicalOffers)
        IN /\ NoTwoEqual(phrases) /\ NoTwoEqual(documents)
           /\ \A n \in DOMAIN phrases : Trimmed(phrases[n])
           /\ \A n \in DOMAIN documents : Trimmed(documents[n])
           /\ phrases = Dedup(PhrasesOf(offers))
           /\ documents = Dedup(DocsOf(offers))

\* two vector hits gave the same phrase and the same path up to blanks, and
\* a lexical fragment gave the phrase once more
C15_Witness ==
    /\ hpc = "returned"
    /\ Len(VectorResponse) = 2
    /\ VectorResponse[1] # VectorResponse[2]
    /\ strip(VectorResponse[1].text) = strip(VectorResponse[2].text)
    /\ strip(VectorResponse[1].path) = strip(VectorResponse[2].path)
    /\ \E n \in DOMAIN LexicalResponse :
          /\ LexicalResponse[n].highlight # <<>>
          /\ strip_em_tags(LexicalResponse[n].highlight[1]) = phrases[1]
    /\ Len(phrases) = 1 /\ Len(documents) = 1

\* Result counts a caller may ask for.
RequestedCounts == (-3..60) \cup {999}

\* C16: the lexical request has size min(50, max(1, k_text)) and the vector
\* request has size and k equal to min(50, max(1, k_vector)), for every
\* requested count; 999 gives 50 and 0 gives 1.
C16_ClampedSizes ==
    /\ requests # {} =>
          requests = { [index |-> "lexical", size |-> Min(50, Max(1, args.k_text)),
                        knn_k |-> 0],
                       [index |-> "vector", size |-> Min(50, Max(1, args.k_vector)),
                        knn_k |-> Min(50, Max(1, args.k_vector))] }
    /\ \A k \in RequestedCounts : clamp(k) = Min(50, Max(1, k))
    /\ clamp(999) = 50 /\ clamp(0) = 1

\* k_text = 999 and k_vector = 0 have been sent as 50 and 1
C16_Witness ==
    /\ args.k_text = 999 /\ args.k_vector = 0
    /\ [index |-> "lexical", size |-> 50, knn_k |-> 0] \in requests
    /\ [index |-> "vector", size |-> 1, knn_k |-> 1] \in requests

\* None, the empty string or blanks only.
Blank(q) == q = None \/ \A n \in DOMAIN q : q[n] = " "

\* C17: for a blank query hybrid_search returns ([], []) and makes no
\* embedding call and no search request.
C17_BlankQueryNoCalls ==
    (Blank(args.query) /\ hpc \notin {"idle", "start"}) =>
        /\ hpc = "returned"
        /\ phrases = <<>> /\ documents = <<>>
        /\ embedCalls = 0
        /\ requests = {}
        /\ \A side \in Sides : responses[side].state = "none"

\* a query of blanks has been answered
C17_Witness ==
    /\ hpc = "returned"
    /\ args.query = <<" ", " ">>
    /\ lexRanked # <<>> /\ vecRanked # <<>>

\* C18: nothing is merged while a response is missing, and the returned pair
\* is the merge of the two engines' answers, whichever arrived first.
C18_MergeAfterBoth ==
    /\ hpc = "searching" => phrases = <<>> /\ documents = <<>>
    /\ (hpc = "returned" /\ ~Blank(args.query)) =>
          /\ \A side \in Sides : responses[side].state = "ok"
          /\ [phrases |-> phrases, documents |-> documents]
               = Merge(search_engine(lexRanked, Min(50, Max(1, args.k_text))),
                       search_engine(vecRanked, Min(50, Max(1, args.k_vector))))

\* the lexical response arrived first, the vector response second, and both
\* gave phrases to the result
C18_Witness ==
    /\ hpc = "returned"
    /\ arrival = <<"lexical", "vector">>
    /\ Len(phrases) >= 2
    /\ phrases[1] \in Range(PhrasesOf(Offers(VectorResponse, VectorOffers)))
    /\ phrases[Len(phrases)] \notin Range(PhrasesOf(Offers(VectorResponse, VectorOffers)))

\* C19: hybrid_search raises at most one error; when the embedding or a
\* search fails it raises and returns nothing, and it returns only when no
\* call failed.
C19_SingleErrorNoPartial ==
    /\ errors <= 1
    /\ (hpc = "raised") = (errors = 1)
    /\ (\E side \in Sides : responses[side].state = "failed") => hpc = "raised"
    /\ hpc = "raised" => phrases = <<>> /\ documents = <<>>
    /\ hpc = "returned" => errors = 0

\* one search returned hits, then the other failed
C19_Witness ==
    /\ hpc = "raised"
    /\ \E s1, s2 \in Sides :
          /\ arrival = <<s1, s2>>
          /\ responses[s1].state = "ok" /\ responses[s1].hits # <<>>
          /\ responses[s2].state = "failed"

\* The field of the index declares the expected type and, for a knn_vector,
\* a dimension of the same number.
SameDeclaration(existing_spec, expected_spec) ==
    /\ existing_spec.dict
    /\ existing_spec.type = expected_spec.type
    /\ expected_spec.type = "knn_vector" =>
          /\ existing_spec.dimension.kind \in {"int", "str"}
          /\ existing_spec.dimension.value = expected_spec.dimension.value

\* The mapping restricted to the fields it shares with another one.
Restricted(m, fields) == [f \in DOMAIN m \cap fields |-> m[f]]

ExampleExisting ==
    [f \in {"doc_id", "content"} |->
        IF f = "doc_id" THEN FieldSpec("keyword", NoDimension)
        ELSE FieldSpec("text", NoDimension)]

ExampleCovered == [f \in {"doc_id"} |-> FieldSpec("keyword", NoDimension)]

ExampleNotCovered ==
    [f \in {"content", "embedding"} |->
        IF f = "content" THEN FieldSpec("text", NoDimension)
        ELSE FieldSpec("knn_vector", IntDimension(1024))]

\* C20: the check returns true exactly when every expected field is in the
\* existing mapping with the same type and, for knn_vector, the same
\* dimension; the existing mapping's other fields do not change the result;
\* {doc_id: keyword, content: text} covers {doc_id: keyword} and does not
\* cover {content: text, embedding: knn_vector(1024)}.
C20_MappingCoverage ==
    mpc = "done" =>
        /\ covers = (\A f \in DOMAIN expected_props :
                        /\ f \in DOMAIN existing_props
                        /\ SameDeclaration(existing_props[f], expected_props[f]))
        /\ covers = properties_cover_expected(
                        Restricted(existing_props, DOMAIN expected_props), expected_props)
        /\ (existing_props = ExampleExisting /\ expected_props = ExampleCovered) => covers
        /\ (existing_props = ExampleExisting /\ expected_props = ExampleNotCovered)
              => ~covers

\* an index with one field more than expected and the expected dimension
\* written as a string is found to cover
C20_Witness ==
    /\ mpc = "done"
    /\ covers
    /\ DOMAIN expected_props = {"content", "embedding"}
    /\ DOMAIN existing_props = {"doc_id", "content", "embedding"}
    /\ existing_props["embedding"].dimension.kind = "str"

\* ------------------------------------------------ client calls: the contracts
Last(s) == s[Len(s)]
\* A call of one of ops has ended after its last request was answered.
Ended(ops) == cpc = "done" /\ call.op \in ops /\ answers # <<>>

\* C21: index_exists and document_exists return true on HTTP 200 and false
\* on HTTP 404 and raise an error on every other status; a 404 never gives
\* an error and another status never gives a boolean.
C21_ExistenceProbes ==
    Ended({"index_exists", "document_exists"}) =>
        LET status == Last(answers).status
        IN  /\ status = 200 => given = ReturnBool(TRUE)
            /\ status = 404 => given = ReturnBool(FALSE)
            /\ status \notin {200, 404} => given.kind = "raise"

\* document_exists got a 404 and returned False
C21_Witness ==
    /\ Ended({"document_exists"})
    /\ Last(answers).status = 404
    /\ given = ReturnBool(FALSE)

\* The "acknowledged" member of a creation answer, Absent when the body is
\* empty, is not JSON, is not an object or has no such member.
AcknowledgedFlag(payload) ==
    IF Parseable(payload) /\ payload.json.top = "dict"
    THEN payload.json.acknowledged ELSE Absent

\* C22: create_index on an index whose existence probe answers true fails
\* with AlreadyExists and sends no creation request; on an absent index it
\* sends one creation request carrying the given mapping and, when the
\* engine answers with success, returns the acknowledged flag of the answer
\* (true when the answer carries none); when the engine answers with another
\* status the call raises, and not AlreadyExists.
C22_CreateIndex ==
    call.op = "create_index" =>
        /\ sent \in { <<>>, <<HeadIndex(call)>>, <<HeadIndex(call), PutIndex(call)>> }
        /\ Len(sent) = 2 => answers # <<>> /\ answers[1].status = 404
        /\ (cpc = "done" /\ answers # <<>> /\ answers[1].status = 200) =>
              /\ given.kind = "raise"
              /\ given.error = "OpenSearchIndexAlreadyExistsError"
              /\ sent = <<HeadIndex(call)>>
        /\ (answers # <<>> /\ answers[1].status = 404) =>
              sent = <<HeadIndex(call), PutIndex(call)>>
        /\ (cpc = "done" /\ Len(answers) = 2) =>
              LET a == answers[2]
                  flag == AcknowledgedFlag(a.payload)
              IN  IF a.status \in {200, 201}
                  THEN /\ given.kind = "return"
                       /\ given.value.kind = "bool"
                       /\ flag.kind = "bool" => given.value = flag
                       /\ flag.kind = "absent" => given = ReturnBool(TRUE)
                  ELSE /\ given.kind = "raise"
                       /\ given.error # "OpenSearchIndexAlreadyExistsError"

\* create_index was called for an absent index with the search mapping, the
\* creation request was sent, the engine answered 200 with
\* "acknowledged": false and the call returned False
C22_Witness ==
    /\ cpc = "done"
    /\ call.op = "create_index"
    /\ sent = <<HeadIndex(call), Request("PUT", <<IndexName>>, <<"mappings", SearchMapping>>)>>
    /\ Len(answers) = 2
    /\ answers[2].status = 200
    /\ AcknowledgedFlag(answers[2].payload) = JsonBool(FALSE)
    /\ given = ReturnBool(FALSE)

\* C23: index_document returns true on 200 and 201, and on every other
\* status fails with the UnexpectedResponse error kind, its message holding
\* the status code and the response body.
C23_UpsertResult ==
    Ended({"index_document"}) =>
        LET a == Last(answers)
        IN  IF a.status \in {200, 201}
            THEN given = ReturnBool(TRUE)
            ELSE /\ given.kind = "raise"
                 /\ given.error = "OpenSearchUnexpectedResponseError"
                 /\ given.status = a.status
                 /\ given.details = <<a.payload>>

\* The search answer holds a hit total that can be read as a count.
HasCount(resp) ==
    /\ resp.top = "dict"
    /\ resp.hits = "dict"
    /\ \/ resp.total.kind \in {"int", "bool"}
       \/ resp.total.kind = "dict" /\ IntConvertible(resp.value)

\* C24: for every HTTP 200 answer with a JSON body, whatever its shape,
\* count_by_term returns an integer >= 0 and does not raise, and it returns
\* 0 when the answer holds no hit total that can be read as a count.
C24_CountNeverRaises ==
    (/\ Ended({"count_by_term"})
     /\ Last(answers).status = 200
     /\ Parseable(Last(answers).payload)) =>
        /\ given.kind = "return"
        /\ given.value.kind \in {"int", "bool"}
        /\ given.value.num >= 0
        /\ ~HasCount(Last(answers).payload.json) => given.value.num = 0

StatusCheckedOps ==
    {"index_exists", "create_index", "index_document", "document_exists", "search"}

\* C26: the error a transport failure surfaces as differs in kind from the
\* error each of the five methods raises for a bad status code.
C26_TransportKindDistinct ==
    (/\ cpc = "done"
     /\ call.op \in StatusCheckedOps
     /\ given.kind = "raise"
     /\ cause \in {"status", "conflict"}) =>
        given.error # signed_request_failed.error

\* The index existed when _setup_index's creation was attempted: the probe
\* of create_index_and_mapping found it, or the engine refused the PUT
\* because of it.
ExistedAtCreation ==
    /\ Len(answers) >= 2
    /\ answers[2].status = 200 \/ (Len(answers) = 3 /\ cause = "conflict")

\* C28: _setup_index completes without error whenever the index exists
\* when creation is attempted, also when another party created it after
\* setup's own existence check.
C28_SetupIdempotent ==
    (cpc = "done" /\ call.op = "setup_index" /\ ExistedAtCreation) =>
        given = ReturnNone

\* -------------------------------------------------- the local document root
\* C27: with the local document root missing or not a directory, the run
\* ends with a fatal error, not with a returned outcome, and issues no
\* object-store or search-index call.
C27_MissingRootFatal ==
    ~docsDirOk =>
        /\ pc # "returned"
        /\ spc # "returned"
        /\ \A c \in Calls : issued[c] = 0

\* ------------------------------------------------------------- embeddings
\* C29: text_to_embedding never returns a vector whose length differs from
\* the configured embedding dimension, for every input text.
C29_EmbeddingDimension ==
    (epc = "done" /\ egiven.kind = "return") =>
        egiven.len = get_embeddings_dimensions(ecall.dim)

\* -------------------------------------------------------------------- ids
\* What "{doc_id}_{i}" is for the doc_id a run computed.
FormattedChunkId(doc_id, i) == <<doc_id, i>>

\* C30: two computations with the same relative path give the same doc_id,
\* in any run and for any file content; chunk i of a document has the id
\* {doc_id}_{i}; two runs over the same document with the same phrases give
\* the same chunk ids.
C30_DeterministicIds ==
    /\ \A r \in DOMAIN runs :
          /\ Len(runs[r].chunk_ids) = Len(runs[r].phrases)
          /\ \A n \in DOMAIN runs[r].chunk_ids :
                runs[r].chunk_ids[n] = FormattedChunkId(runs[r].doc_id, n - 1)
    /\ \A r1, r2 \in DOMAIN runs :
          runs[r1].rel_path = runs[r2].rel_path =>
              /\ runs[r1].doc_id = runs[r2].doc_id
              /\ runs[r1].phrases = runs[r2].phrases =>
                    runs[r1].chunk_ids = runs[r2].chunk_ids
              /\ \A n \in DOMAIN runs[r1].chunk_ids \cap DOMAIN runs[r2].chunk_ids :
                    runs[r1].chunk_ids[n] = runs[r2].chunk_ids[n]

\* a file was edited between two runs: same path, other content, both runs
\* computed chunk ids
C30_Witness ==
    \E r1, r2 \in DOMAIN runs :
        /\ r1 < r2
        /\ runs[r1].rel_path = runs[r2].rel_path
        /\ runs[r1].content # runs[r2].content
        /\ runs[r1].chunk_ids # <<>>
        /\ runs[r2].chunk_ids # <<>>
        /\ runs[r1].doc_id = runs[r2].doc_id

\* -------------------------------------------------------------------- C31
\* The chunks of document d in a vector index.
ChunksOf(idx, d) == { c \in idx : c[1] = doc_id_from_rel_path(d) }

\* C31: a document whose chunk batch broke off in an earlier run after a
\* chunk had been written gets no embedding and no chunk write in any later
\* run: its chunks stay as that run left them, fewer than its phrases.
C31_PartialStaysPartial ==
    \A d \in stuck :
        /\ Issued("embed", d) = 0
        /\ Issued("chunk_write", d) = 0
        /\ ChunksOf(vecIdx, d) = ChunksOf(start.vec, d)
        /\ Cardinality(ChunksOf(vecIdx, d)) < Len(Phrases(d))

\* a later run has checked such a document's embeddings and returned
C31_Witness ==
    \E d \in stuck : /\ pc = "returned"
                      /\ dpc[d] = "returned"
                      /\ Call("emb_exists", d, 0) \in okCalls
                      /\ failedCalls = {}
\* -------------------------------------------------------------------- C32
\* The existence checks and the writes of both indexes.
IndexCalls == { c \in Calls : c[1] \in {"lex_exists", "lex_write", "emb_exists", "chunk_write"} }

\* C32: while a planned upload of the run is waiting or in flight, no
\* existence check and no write of either index has been issued; and a run
\* that returns has issued the lexical existence check of every document,
\* the ones whose upload raised included.
C32_IndexingAfterUploads ==
    /\ (\E d \in Docs : up[d] \in {"waiting", "inflight"}) =>
           \A c \in IndexCalls : issued[c] = 0
    /\ (pc = "returned" /\ docsDirOk) =>
           \A d \in Docs : issued[Call("lex_exists", d, 0)] = 1

\* a document whose upload raised has been written to the lexical index,
\* next to a document whose upload returned
C32_Witness ==
    /\ pc = "returned"
    /\ \E d, e \in Docs : /\ up[d] = "failed"
                           /\ Call("lex_write", d, 0) \in okCalls
                           /\ dpc[d] = "returned"
                           /\ up[e] = "ok"
\* -------------------------------------------------------------------- C35
\* The chunk indexes of document d written in the vector index.
WrittenIndexes(d) == { c[2] : c \in ChunksOf(vecIdx, d) }

\* C35: for a document with no chunk in the vector index when the run
\* starts, the chunk indexes written are 0..k-1 with k = indexed_chunks;
\* phrase i is embedded only when the chunks before it are written and chunk
\* i is written only when its embedding has returned; a call of chunk i that
\* raised leaves the chunks 0..i-1.
C35_ContiguousPrefix ==
    \A d \in Docs : ChunksOf(start.vec, d) = {} =>
        /\ WrittenIndexes(d) = 0..(indexed_chunks[d] - 1)
        /\ \A i \in 0..(MaxChunks - 1) :
              /\ issued[Call("embed", d, i)] >= 1 => indexed_chunks[d] >= i
              /\ issued[Call("chunk_write", d, i)] >= 1 =>
                    /\ indexed_chunks[d] >= i
                    /\ Call("embed", d, i) \in okCalls
              /\ (Call("embed", d, i) \in failedCalls
                    \/ Call("chunk_write", d, i) \in failedCalls) =>
                    WrittenIndexes(d) = 0..(i - 1)

\* the second chunk's write raised and left the first chunk alone
C35_Witness ==
    \E d \in Docs : /\ ChunksOf(start.vec, d) = {}
                    /\ Call("chunk_write", d, 1) \in failedCalls
                    /\ WrittenIndexes(d) = {0}
                    /\ pc = "returned"
\* -------------------------------------------------------------------- C33
BothCompleted == pc = "returned" /\ pc2 = "returned"

\* Every local document has its object, its lexical entry and every chunk
\* of its content.  The bucket is keyed by key and the indexes by _id, so an
\* entry that is there is there once.
AllStoredOnce ==
    \A d \in Docs : /\ Key(d) \in s3Objects
                    /\ doc_id_from_rel_path(d) \in lexIdx
                    /\ ChunkIds(d) \subseteq vecIdx

\* C33 as stated: when two runs without failed calls have both completed,
\* every local document has its object, its lexical entry and all its
\* chunks, whatever the stores held at the start.
C33_PairLeavesAllStored == BothCompleted => AllStoredOnce

\* C33, from stores where each document has no chunk or its full chunk set:
\* when both runs have completed, every local document has its object, its
\* lexical entry and all its chunks; the stores are keyed, so the writes the
\* two runs both made are upserts of one entry.
C33_PairLeavesAllStoredFromNoneOrFull ==
    (BothCompleted /\ ChunksNoneOrFullAtStart) => AllStoredOnce

\* both runs have uploaded the same document and written every chunk of it
C33_Witness ==
    /\ BothCompleted /\ ChunksNoneOrFullAtStart
    /\ \E d \in Docs :
          /\ Len(Phrases(d)) = MaxChunks
          /\ Call("put", d, 0) \in okCalls /\ up2[d] = "ok"
          /\ indexed_text[d] = 1
          /\ indexed_chunks[d] = MaxChunks /\ di2[d] = MaxChunks
\* -------------------------------------------------------------------- C34
\* The tasks holding a permit of os_sem, and of embed_sem: those with an
\* index call, or an embedding, in flight.
HoldingOsSem == { d \in Docs : dpc[d] \in CallOps \ {"embed"} }
HoldingEmbedSem == { d \in Docs : dpc[d] = "embed" }

\* The tasks waiting in `async with` for doc_sem, os_sem or embed_sem.
WaitingForSemaphore == { d \in Docs : dpc[d] \in WantStates \cup {"wait_doc_sem"} }

\* No task waits while it holds os_sem or embed_sem, and every permit taken
\* from these two is held by a call in flight.
NoWaitWhileHolding ==
    pc = "indexing" =>
        /\ WaitingForSemaphore \cap (HoldingOsSem \cup HoldingEmbedSem) = {}
        /\ osSem + Cardinality(HoldingOsSem) = SemaphoreValue(conf[2])
        /\ embedSem + Cardinality(HoldingEmbedSem) = SemaphoreValue(conf[3])

RunOver == pc \in {"returned", "raised"}

\* C34: with every remote call returning or raising, every run comes to its
\* end, for each corpus and each configured limit; all along, no task waits
\* for a semaphore while holding the index-call or the embedding semaphore.
C34_RunCompletes == []NoWaitWhileHolding /\ <>RunOver

\* a task waits for the embedding semaphore that another task holds, and a
\* task waits for doc_sem with every permit taken
C34_Witness ==
    \/ \E d, e \in Docs : /\ dpc[d] = Want("embed")
                           /\ dpc[e] = "embed"
                           /\ embedSem = 0
    \/ \E d \in Docs : dpc[d] = "wait_doc_sem" /\ docSem = 0
\* -------------------------------------------------------------------- C36
\* Every offer of the two responses, with or without a phrase.
AllOffers ==
    Flatten([n \in DOMAIN VectorResponse |-> VectorOffers(VectorResponse[n])])
    \o Flatten([n \in DOMAIN LexicalResponse |-> LexicalOffers(LexicalResponse[n])])

\* The paths of the offers that have a phrase and a path after trimming.
PathsWithPhrase ==
    { AllOffers[n].doc : n \in { m \in DOMAIN AllOffers :
                                   AllOffers[m].phrase # <<>> /\ AllOffers[m].doc # <<>> } }

\* C36: a path is in the returned documents exactly when some hit offers it,
\* trimmed and not empty, with a phrase that is not empty after trimming,
\* be that phrase new or a repetition; it is there once; a hit that offers
\* no phrase adds no path.
C36_PathAddedWithPhrase ==
    hpc = "returned" =>
        /\ Range(documents) = PathsWithPhrase
        /\ Len(documents) = Cardinality(PathsWithPhrase)

\* a fragment repeated the phrase of a vector hit without a path and brought
\* its path; a hit without fragments and title brought none
C36_Witness ==
    /\ hpc = "returned"
    /\ VectorResponse = << [text |-> <<"B">>, path |-> <<" ">>] >>
    /\ LexicalResponse =
          << [path |-> <<"y">>, title |-> <<"T">>, highlight |-> << <<"B">> >>],
             [path |-> <<"x">>, title |-> None, highlight |-> <<>>] >>
    /\ phrases = << <<"B">> >>
    /\ documents = << <<"y">> >>

\* ------------------------------------------------------------------- C37
CollectionOver == kpc \in {"returned", "raised"}

CollectionSafe ==
    /\ created <= 1
    /\ created = 1 => found = "absent"
    /\ found = "exists" => kpc = "returned" /\ created = 0
    /\ kpc \in {"polling", "sleeping"} =>
          /\ created = 1
          /\ upper(seen) \notin {"ACTIVE", "FAILED", "DELETING"}
    /\ kpc = "polling" => now < deadline
    /\ (kpc = "returned" /\ created = 1) => upper(seen) = "ACTIVE"
    /\ kgiven = "unexpected status" => upper(seen) \in {"FAILED", "DELETING"}
    /\ (kpc = "raised" /\ upper(seen) \in {"FAILED", "DELETING"}) =>
          kgiven = "unexpected status"
    /\ kgiven = "Timed out waiting" => kpc = "raised" /\ now >= deadline
    /\ (CollectionOver /\ seen \in {"raises", "no_details", "no_status", "CREATING"}) =>
          kgiven = "Timed out waiting"

\* C37: _setup_collection calls create_collection only when the existence
\* check found no collection, and at most once; after creation it always
\* ends: it returns exactly when a poll reports ACTIVE, raises the
\* unexpected-status error exactly when a poll reports FAILED or DELETING
\* (in any letter case), and raises the timeout only with the deadline
\* passed; a poll that raises, or reports anything else, is followed by the
\* sleep and ends the wait only through the timeout.
C37_CreatesWhenAbsentThenEnds == []CollectionSafe /\ <>CollectionOver

\* the wait ran to the deadline with every poll since answered, the last of
\* them by an exception
C37_Witness == created = 1 /\ kgiven = "Timed out waiting" /\ seen = "raises"

\* ------------------------------------------------------------------- C38
SyncPlanned == { d \in Docs : sup[d] # "none" }

SyncOver == spc \in {"returned", "complete"}

\* C38: for every configured concurrency and every set of planned uploads,
\* with every upload call returning or failing, a pass of
\* startup_check_and_sync_docs whose listing succeeded eventually completes,
\* and at completion succeeded + failed is the number of planned uploads.
C38_SyncCompletes ==
    /\ [](spc = "complete" => succeeded + failed = Cardinality(SyncPlanned))
    /\ <>(SyncOver \/ ListCall \in failedCalls)

====
